---- MODULE Spec2Model ----
(***************************************************************************)
(* LuminaJournal: the audio utilities (base64 payload decoder, WAV header  *)
(* writer, PCM-to-WAV assembly) and the speech step that uses them; the    *)
(* remote text-analysis and video-generation operations of geminiService;  *)
(* the VideoGenerator and LifeCinema pipelines; the App's entry list.      *)
(*                                                                         *)
(* A string is a sequence of UTF-16 code units, a byte buffer a sequence   *)
(* of numbers 0..255; offsets are 0-based as in the source, so the byte at *)
(* offset k of a buffer b is b[k + 1].                                     *)
(*                                                                         *)
(* Each specification exercises one part of the program and holds the      *)
(* variables of the other parts at their idle values.                      *)
(***************************************************************************)
EXTENDS Integers, Sequences, FiniteSets, TLC

\* Longest PCM payload whose standard encoding is fed to the decoder.
MaxBytes == 3
\* Longest base64 argument built freely from RawChars.
MaxStrLen == 4
\* Status polls of one video job the model follows.
MaxPolls == 3
\* Longest reference-image string passed to generateCinematicMemory.
MaxImageLen == 2
\* Executions of handleGenerate / handleStart on one mounted component.
MaxRuns == 2
\* Longest entries list the App holds.
MaxEntries == 2
\* Longest list of raw entries in an import file.
MaxImport == 2

VARIABLES
    op,             \* the exported operation this behaviour invokes
    base64,         \* its string argument (base64 / base64Data / base64Audio)
    source,         \* "encoded": base64 is the standard encoding of pcm; "raw": any string
    pcm,            \* the bytes the provider encoded (source = "encoded"), else <<>>
    dataLength,     \* createWavHeader arguments
    sampleRate,
    numChannels,
    bitsPerSample,
    pc,             \* "call", "await" (generateJournalAudio suspended), "done"
    ret,            \* what a synchronous operation returned or threw
    promise,        \* the promise of generateJournalAudio
    urlStore,       \* blobs registered by URL.createObjectURL, in order
    svcOp,          \* the geminiService operation invoked directly, or "none"
    response,       \* the generateContent response a text operation received
    svcPrompt,      \* its string argument (prompt / entriesText / content)
    svcImage,       \* generateCinematicMemory's base64Image
    sent,           \* the caller's text as embedded in a generateContent request
    txt,            \* the promise of that text operation
    vid,            \* the generateCinematicMemory invocation
    comp,           \* the mounted generation component, or "none"
    genEntries,     \* its entries prop
    mounted,        \* FALSE once the App has left the component's view
    hasKey,         \* VideoGenerator's hasKey
    ui,             \* status, URLs, analysis / profile, error message
    runs,           \* the executions of handleGenerate / handleStart
    appPc,          \* the App: "unmounted", "mounting", "ready"
    entries,        \* its entries state
    pending,        \* the loaded list queued by the load effect
    storage,        \* localStorage under 'lumina_entries'
    appView,        \* the App's view state
    isImporting,
    selectedIds,    \* the ids selected on the timeline, in the order chosen
    isSelectionMode,
    reading,        \* a FileReader has been started and has not loaded yet
    lastAlert,      \* the alert() the last step showed
    uncaught,       \* an error escaped a handler
    nextId,         \* stands for crypto.randomUUID(): the next fresh id
    ghost,          \* recent history, see the App's state machine
    edContent,      \* the Editor's content
    edTags,         \* the Editor's tags
    isSuggesting,
    suggestion      \* the last call of the Editor's handleSuggestTags

audioVars == <<op, base64, source, pcm, dataLength, sampleRate, numChannels,
               bitsPerSample, pc, ret, promise, urlStore>>
svcVars == <<svcOp, svcPrompt, svcImage, sent, response, txt, vid>>

genVars == <<comp, genEntries, mounted, hasKey, ui, runs>>

appVars == <<appPc, entries, pending, storage, appView, isImporting,
             selectedIds, isSelectionMode,
             reading, lastAlert, uncaught, nextId, ghost>>

edVars == <<edContent, edTags, isSuggesting, suggestion>>

nonAudio == <<svcVars, genVars, appVars, edVars>>
nonSvc == <<audioVars, genVars, appVars, edVars>>
nonGen == <<audioVars, svcVars, appVars, edVars>>
nonApp == <<audioVars, svcVars, genVars, edVars>>
nonEd == <<audioVars, svcVars, genVars, appVars>>

vars == <<audioVars, svcVars, genVars, appVars, edVars>>

-----------------------------------------------------------------------------
(* Results of synchronous calls *)

NoResult == [kind |-> "none", bytes |-> <<>>, error |-> ""]
Value(b) == [kind |-> "value", bytes |-> b, error |-> ""]
Throw(e) == [kind |-> "throw", bytes |-> <<>>, error |-> e]

-----------------------------------------------------------------------------
(* atob: the platform's forgiving-base64 decode, called at part_002:2 *)

AsciiWhitespace == {9, 10, 12, 13, 32}

IsBase64Char(c) ==
    \/ c \in 65..90          \* A-Z
    \/ c \in 97..122         \* a-z
    \/ c \in 48..57          \* 0-9
    \/ c = 43                \* +
    \/ c = 47                \* /

\* Variant: '+' and '/' exchanged in the alphabet table.
Base64ValueSwapped(c) ==
    IF c \in 65..90 THEN c - 65
    ELSE IF c \in 97..122 THEN c - 71
    ELSE IF c \in 48..57 THEN c + 4
    ELSE IF c = 43 THEN 63
    ELSE 62

Base64Value(c) ==
    IF c \in 65..90 THEN c - 65
    ELSE IF c \in 97..122 THEN c - 71
    ELSE IF c \in 48..57 THEN c + 4
    ELSE IF c = 43 THEN 62
    ELSE 63

NotWhitespace(c) == c \notin AsciiWhitespace

StripWhitespace(s) == SelectSeq(s, NotWhitespace)

\* One or two trailing "=" are removed when the length is a multiple of 4.
StripPadding(d) ==
    IF Len(d) > 0 /\ Len(d) % 4 = 0 /\ d[Len(d)] = 61
    THEN IF d[Len(d) - 1] = 61
         THEN SubSeq(d, 1, Len(d) - 2)
         ELSE SubSeq(d, 1, Len(d) - 1)
    ELSE d

\* 6 bits per character; every 24 bits give 3 bytes; 12 left over give 1 byte
\* (last 4 bits discarded), 18 left over give 2 bytes (last 2 bits discarded).
RECURSIVE DecodeGroups(_)
DecodeGroups(d) ==
    IF Len(d) = 0 THEN <<>>
    ELSE IF Len(d) >= 4
    THEN LET n == Base64Value(d[1]) * 262144 + Base64Value(d[2]) * 4096
                  + Base64Value(d[3]) * 64 + Base64Value(d[4])
         IN  <<n \div 65536, (n \div 256) % 256, n % 256>>
                 \o DecodeGroups(SubSeq(d, 5, Len(d)))
    ELSE IF Len(d) = 2
    THEN LET n == Base64Value(d[1]) * 64 + Base64Value(d[2])
         IN  <<n \div 16>>
    ELSE LET n == Base64Value(d[1]) * 4096 + Base64Value(d[2]) * 64
                  + Base64Value(d[3])
         IN  <<n \div 1024, (n \div 4) % 256>>

atob(s) ==
    LET d == StripPadding(StripWhitespace(s))
    IN  IF Len(d) % 4 = 1 \/ \E i \in 1..Len(d) : ~IsBase64Char(d[i])
        THEN Throw("InvalidCharacterError")
        ELSE Value(DecodeGroups(d))

-----------------------------------------------------------------------------
(* audioUtils *)

\* new Uint8Array(len), new ArrayBuffer(len): len zero bytes (as a tuple).
Uint8Array(len) == SubSeq([i \in 1..len |-> 0], 1, len)

RECURSIVE copyFrom(_, _, _)
copyFrom(bytes, binaryString, i) ==
    IF i >= Len(binaryString) THEN bytes
    ELSE copyFrom([bytes EXCEPT ![i + 1] = binaryString[i + 1] % 256],
                  binaryString, i + 1)

base64ToUint8Array(b64) ==
    LET binaryString == atob(b64)
    IN  IF binaryString.kind = "throw"
        THEN binaryString
        ELSE Value(copyFrom(Uint8Array(Len(binaryString.bytes)),
                            binaryString.bytes, 0))

HeaderSize == 44

\* DataView setters: the value is reduced modulo 2^8, 2^16, 2^32.
setUint8(view, offset, v) ==
    [view EXCEPT ![offset + 1] = v % 256]

\* Variant: the littleEndian flag is ignored (the DataView default order).
setUint16BigEndian(view, offset, v, littleEndian) ==
    [view EXCEPT ![offset + 2] = v % 256,
                 ![offset + 1] = (v \div 256) % 256]

setUint16(view, offset, v, littleEndian) ==
    IF littleEndian
    THEN [view EXCEPT ![offset + 1] = v % 256,
                      ![offset + 2] = (v \div 256) % 256]
    ELSE [view EXCEPT ![offset + 2] = v % 256,
                      ![offset + 1] = (v \div 256) % 256]

\* Variant: the littleEndian flag is ignored (the DataView default order).
setUint32BigEndian(view, offset, v, littleEndian) ==
    [view EXCEPT ![offset + 4] = v % 256,
                 ![offset + 3] = (v \div 256) % 256,
                 ![offset + 2] = (v \div 65536) % 256,
                 ![offset + 1] = (v \div 16777216) % 256]

setUint32(view, offset, v, littleEndian) ==
    IF littleEndian
    THEN [view EXCEPT ![offset + 1] = v % 256,
                      ![offset + 2] = (v \div 256) % 256,
                      ![offset + 3] = (v \div 65536) % 256,
                      ![offset + 4] = (v \div 16777216) % 256]
    ELSE [view EXCEPT ![offset + 4] = v % 256,
                      ![offset + 3] = (v \div 256) % 256,
                      ![offset + 2] = (v \div 65536) % 256,
                      ![offset + 1] = (v \div 16777216) % 256]

RECURSIVE writeFrom(_, _, _, _)
writeFrom(view, offset, string, i) ==
    IF i >= Len(string) THEN view
    ELSE writeFrom(setUint8(view, offset + i, string[i + 1]), offset, string, i + 1)

\* Variant: the characters are written from offset 0 whatever the offset given.
writeStringNoOffset(view, offset, string) == writeFrom(view, 0, string, 0)

writeString(view, offset, string) == writeFrom(view, offset, string, 0)

\* The number num/den converted to an integer as the DataView setters do:
\* truncated toward zero.
ToInteger(num, den) ==
    IF num >= 0 THEN num \div den ELSE -((-num) \div den)

RIFF == <<82, 73, 70, 70>>
WAVE == <<87, 65, 86, 69>>
FMT  == <<102, 109, 116, 32>>
DATA == <<100, 97, 116, 97>>

createWavHeader(dLength, sRate, nChannels, bits) ==
    LET header == Uint8Array(HeaderSize)
        v1  == writeString(header, 0, RIFF)
        v2  == setUint32(v1, 4, 36 + dLength, TRUE)
        v3  == writeString(v2, 8, WAVE)
        v4  == writeString(v3, 12, FMT)
        v5  == setUint32(v4, 16, 16, TRUE)
        v6  == setUint16(v5, 20, 1, TRUE)
        v7  == setUint16(v6, 22, nChannels, TRUE)
        v8  == setUint32(v7, 24, sRate, TRUE)
        v9  == setUint32(v8, 28, ToInteger(sRate * nChannels * bits, 8), TRUE)
        v10 == setUint16(v9, 32, ToInteger(nChannels * bits, 8), TRUE)
        v11 == setUint16(v10, 34, bits, TRUE)
        v12 == writeString(v11, 36, DATA)
        v13 == setUint32(v12, 40, dLength, TRUE)
    IN  v13

\* Variants: the header is left out; the payload is put before the header.
BlobPayloadOnly(parts) == parts[2]
BlobPayloadFirst(parts) == parts[2] \o parts[1]

\* new Blob([header, pcmData]): the parts' bytes one after the other.
Blob(parts) == parts[1] \o parts[2]

\* Variant: the header is written for 2 channels.
pcmToWavBlobStereo(base64Data, sRate) ==
    LET pcmData == base64ToUint8Array(base64Data)
    IN  IF pcmData.kind = "throw"
        THEN pcmData
        ELSE Value(Blob(<<createWavHeader(Len(pcmData.bytes), sRate, 2, 16),
                          pcmData.bytes>>))

pcmToWavBlob(base64Data, sRate) ==
    LET pcmData == base64ToUint8Array(base64Data)
    IN  IF pcmData.kind = "throw"
        THEN pcmData
        ELSE Value(Blob(<<createWavHeader(Len(pcmData.bytes), sRate, 1, 16),
                          pcmData.bytes>>))

-----------------------------------------------------------------------------
(* The remote speech provider encodes raw PCM with the standard encoder *)

Base64Char(v) ==
    IF v < 26 THEN 65 + v
    ELSE IF v < 52 THEN 71 + v
    ELSE IF v < 62 THEN v - 4
    ELSE IF v = 62 THEN 43
    ELSE 47

RECURSIVE StdEncode(_)
StdEncode(b) ==
    IF Len(b) = 0 THEN <<>>
    ELSE IF Len(b) >= 3
    THEN LET n == b[1] * 65536 + b[2] * 256 + b[3]
         IN  <<Base64Char(n \div 262144), Base64Char((n \div 4096) % 64),
               Base64Char((n \div 64) % 64), Base64Char(n % 64)>>
                 \o StdEncode(SubSeq(b, 4, Len(b)))
    ELSE IF Len(b) = 1
    THEN LET n == b[1] * 16
         IN  <<Base64Char(n \div 64), Base64Char(n % 64), 61, 61>>
    ELSE LET n == (b[1] * 256 + b[2]) * 4
         IN  <<Base64Char(n \div 4096), Base64Char((n \div 64) % 64),
               Base64Char(n % 64), 61>>

-----------------------------------------------------------------------------
(* Inputs *)

\* 'A', 'Q', '/', '=', ' ', '!'
RawChars == {65, 81, 47, 61, 32, 33}

RawStrings == UNION {[1..k -> RawChars] : k \in 0..MaxStrLen}

\* Payloads: every byte value at every position, the other positions 0 or 255.
PadBytes == {0, 255}

PcmOfLength(k) ==
    UNION {UNION {{[p EXCEPT ![i] = v] : v \in 0..255} : i \in 1..k}
               : p \in [1..k -> PadBytes]}

PcmSamples == {<<>>} \cup UNION {PcmOfLength(k) : k \in 1..MaxBytes}

DataLengths == (0..MaxBytes) \cup {255, 256, 65535, 65536, 16909060}
SampleRates == {-1, 0, 1, 8000, 24000, 44100}
ChannelCounts == {-1, 0, 1, 2, 65537}
BitDepths == {-8, 0, 8, 12, 16, 24}
BlobRates == {8000, 24000}

Abs(n) == IF n >= 0 THEN n ELSE -n

\* The products createWavHeader forms stay within 32-bit integer arithmetic
\* (JavaScript numbers hold them exactly).
Representable(sRate, nChannels, bits) ==
    \/ sRate = 0
    \/ /\ Abs(nChannels) <= (2147483647 \div Abs(sRate))
       /\ Abs(nChannels) * Abs(bits) <= (2147483647 \div Abs(sRate))

-----------------------------------------------------------------------------
(* geminiService: the text operations                                      *)
(*                                                                         *)
(* response.text of a generateContent response is either absent            *)
(* (undefined) or a string.  A parsed JSON value is represented by its     *)
(* canonical text.                                                         *)

NoResponse == [hasText |-> FALSE, text |-> ""]
TextOf(s) == [hasText |-> TRUE, text |-> s]

\* `text` as a condition: undefined and "" are falsy.
Truthy(r) == r.hasText /\ r.text # ""

TxtNone == [state |-> "none", value |-> "", error |-> ""]
TxtPending == [state |-> "pending", value |-> "", error |-> ""]
TxtFulfilled(v) == [state |-> "fulfilled", value |-> v, error |-> ""]
TxtRejected(e) == [state |-> "rejected", value |-> "", error |-> e]

\* JSON.parse on the texts the model's provider sends: insignificant
\* whitespace is dropped, anything that is not a JSON document throws.
JSONparse(s) ==
    CASE s = "[]" -> TxtFulfilled("[]")
      [] s = " [ \"sea\" ] " -> TxtFulfilled("[\"sea\"]")
      [] s = "{ \"prompt\": \"p\" }" -> TxtFulfilled("{\"prompt\":\"p\"}")
      [] s = "null" -> TxtFulfilled("null")
      [] OTHER -> TxtRejected("SyntaxError")

\* The three operations from the point where generateContent has answered
\* with response r.
analyzeJournalForVideo(r) ==
    IF ~Truthy(r) THEN TxtRejected("No response from Gemini")
    ELSE JSONparse(r.text)

analyzeLifeProfile(r) ==
    IF ~Truthy(r) THEN TxtRejected("No response from Gemini")
    ELSE JSONparse(r.text)

suggestTags(r) == IF Truthy(r) THEN JSONparse(r.text) ELSE TxtFulfilled("[]")

TextOps == {"analyzeJournalForVideo", "analyzeLifeProfile", "suggestTags"}

JournalLimit == 5000
ProfileLimit == 10000

substringFromSecond(s, indexEnd) ==
    IF indexEnd < Len(s) THEN SubSeq(s, 2, indexEnd + 1) ELSE s

\* s.substring(0, indexEnd), indexEnd >= 0
substring(s, indexEnd) ==
    IF indexEnd < Len(s) THEN SubSeq(s, 1, indexEnd) ELSE s

\* The part of the request's contents that comes from the caller's text.
Embedded(o, text) ==
    CASE o = "analyzeJournalForVideo" -> substring(text, JournalLimit)
      [] o = "analyzeLifeProfile" -> substring(text, ProfileLimit)
      [] o = "suggestTags" -> text

TextResult(o, r) ==
    CASE o = "analyzeJournalForVideo" -> analyzeJournalForVideo(r)
      [] o = "analyzeLifeProfile" -> analyzeLifeProfile(r)
      [] o = "suggestTags" -> suggestTags(r)

-----------------------------------------------------------------------------
(* geminiService: generateCinematicMemory                                  *)

PromptLimit == 400
PollDelay == 5000
Comma == 44

Min(S) == CHOOSE x \in S : \A y \in S : x <= y

\* prompt.length > 400 ? prompt.substring(0, 400) : prompt
cleanPrompt(prompt) ==
    IF Len(prompt) > PromptLimit THEN SubSeq(prompt, 1, PromptLimit)
    ELSE prompt

\* s.split(',')[1]: the piece between the first comma and the next one (or
\* the end); undefined when s has no comma.
Commas(s) == {i \in 1..Len(s) : s[i] = Comma}
SplitSecond(s) ==
    LET first == Min(Commas(s))
        later == {j \in Commas(s) : j > first}
        stop == IF later = {} THEN Len(s) + 1 ELSE Min(later)
    IN  SubSeq(s, first + 1, stop - 1)

\* base64Image.split(',')[1] || base64Image
cleanBase64(image) ==
    IF Commas(image) = {} \/ SplitSecond(image) = <<>> THEN image
    ELSE SplitSecond(image)

\* The generateVideos request: the image variant when base64Image is truthy
\* (an absent image and '' are both <<>> here).
VideoRequest(prompt, image) ==
    IF image # <<>>
    THEN [prompt |-> cleanPrompt(prompt), hasImage |-> TRUE,
          imageBytes |-> cleanBase64(image)]
    ELSE [prompt |-> cleanPrompt(prompt), hasImage |-> FALSE,
          imageBytes |-> <<>>]

NoRequest == [prompt |-> <<>>, hasImage |-> FALSE, imageBytes |-> <<>>]

\* One invocation.  pc: "submit" (awaiting generateVideos), "sleep" (the
\* 5-second timer runs), "poll" (awaiting getVideosOperation), "fetch"
\* (awaiting the download), "blob" (awaiting the body), "done" (settled).
\* done/hasUri: the last observed job state.  submits, polls, fetches: the
\* requests issued so far; waited: milliseconds of completed timers; urls:
\* object URLs created.
VidIdle ==
    [pc |-> "idle", request |-> NoRequest, done |-> FALSE, hasUri |-> FALSE,
     submits |-> 0, polls |-> 0, waited |-> 0, fetches |-> 0, urls |-> 0,
     state |-> "none", error |-> ""]

\* Lines 94-131: up to the await of generateVideos.
generateCinematicMemory(prompt, image) ==
    [VidIdle EXCEPT !.pc = "submit", !.request = VideoRequest(prompt, image),
                    !.submits = 1, !.state = "pending"]

VidRejectResubmits(v, e) ==
    IF e = "generateVideos" /\ v.submits < 2
    THEN [v EXCEPT !.pc = "submit", !.submits = @ + 1]
    ELSE [v EXCEPT !.pc = "done", !.state = "rejected", !.error = e]

\* The catch at 150-153 logs and rethrows: the promise rejects.
VidReject(v, e) == [v EXCEPT !.pc = "done", !.state = "rejected", !.error = e]

\* An `operation` value arrives (from generateVideos or getVideosOperation):
\* the loop test at 134, and after the loop lines 139-146.
ObservedNoWait(v, done, hasUri) ==
    LET w == [v EXCEPT !.done = done, !.hasUri = hasUri]
    IN  IF ~done THEN [w EXCEPT !.pc = "poll", !.polls = @ + 1]
        ELSE IF ~hasUri THEN VidReject(w, "Failed to generate video URI")
        ELSE [w EXCEPT !.pc = "fetch", !.fetches = @ + 1]

ObservedFetchEarly(v, done, hasUri) ==
    LET w == [v EXCEPT !.done = done, !.hasUri = hasUri]
    IN  IF ~done /\ v.polls = 0 THEN [w EXCEPT !.pc = "sleep"]
        ELSE IF ~hasUri /\ done THEN VidReject(w, "Failed to generate video URI")
        ELSE [w EXCEPT !.pc = "fetch", !.fetches = @ + 1]

ObservedGivesUp(v, done, hasUri) ==
    LET w == [v EXCEPT !.done = done, !.hasUri = hasUri]
    IN  IF ~done /\ v.polls >= 2 THEN VidReject(w, "timeout")
        ELSE IF ~done THEN [w EXCEPT !.pc = "sleep"]
        ELSE IF ~hasUri THEN VidReject(w, "Failed to generate video URI")
        ELSE [w EXCEPT !.pc = "fetch", !.fetches = @ + 1]

ObservedFetchesWithoutUri(v, done, hasUri) ==
    LET w == [v EXCEPT !.done = done, !.hasUri = hasUri]
    IN  IF ~done THEN [w EXCEPT !.pc = "sleep"]
        ELSE [w EXCEPT !.pc = "fetch", !.fetches = @ + 1]

Observed(v, done, hasUri) ==
    LET w == [v EXCEPT !.done = done, !.hasUri = hasUri]
    IN  IF ~done THEN [w EXCEPT !.pc = "sleep"]
        ELSE IF ~hasUri THEN VidReject(w, "Failed to generate video URI")
        ELSE [w EXCEPT !.pc = "fetch", !.fetches = @ + 1]

\* The timer of line 135 fires; line 136 issues the status request.
TimerFired(v) ==
    [v EXCEPT !.pc = "poll", !.waited = @ + PollDelay, !.polls = @ + 1]

\* fetch resolved (146); the body is read next (147).
Fetched(v) == [v EXCEPT !.pc = "blob"]

\* The body arrived: URL.createObjectURL(blob) and return (148).
BlobRead(v) ==
    [v EXCEPT !.pc = "done", !.urls = @ + 1, !.state = "fulfilled"]

\* What the provider can answer about a job: not done; done with a video
\* URI; done without one.
JobStates == {<<FALSE, FALSE>>, <<TRUE, TRUE>>, <<TRUE, FALSE>>}

-----------------------------------------------------------------------------
(* VideoGenerator and LifeCinema: one mounted instance of either component  *)
(*                                                                          *)
(* runs[r] is the r-th execution of handleGenerate / handleStart: h is the  *)
(* handler's position ("ana": awaiting the analysis, "all": awaiting        *)
(* Promise.all, "returned": ended after setting COMPLETED, "caught": ended  *)
(* in its catch block), ana the analysis promise, vid and aud the two       *)
(* generations.  A URL or an analysis held in the component's state is      *)
(* named by the run that produced it; 0 is null.                            *)

NoMsg == "<null>"

UiInit ==
    [status |-> "IDLE", videoUrl |-> 0, audioUrl |-> 0, analysis |-> 0,
     errorMsg |-> NoMsg]

GenIdle ==
    /\ comp = "none" /\ genEntries = <<>> /\ mounted = FALSE /\ hasKey = FALSE
    /\ ui = UiInit /\ runs = <<>>

\* generateJournalAudio as one of the two generations of a run.
AudIdle == [pc |-> "idle", requests |-> 0, urls |-> 0, state |-> "none",
            error |-> ""]
SpeechStart ==
    [AudIdle EXCEPT !.pc = "await", !.requests = 1, !.state = "pending"]
SpeechReject(a, e) ==
    [a EXCEPT !.pc = "done", !.state = "rejected", !.error = e]
SpeechAnswered(a, base64Audio) ==
    IF base64Audio = <<>> THEN SpeechReject(a, "No audio data returned")
    ELSE LET blob == pcmToWavBlob(base64Audio, 24000)
         IN  IF blob.kind = "throw" THEN SpeechReject(a, blob.error)
             ELSE [a EXCEPT !.pc = "done", !.state = "fulfilled",
                            !.urls = @ + 1]

\* No inline data, or "QQ==" (one byte of PCM).
SpeechPayloads == {<<>>, <<81, 81, 61, 61>>}

Entry(image) == [images |-> IF image = <<>> THEN <<>> ELSE <<image>>]
Times(n, e) == SubSeq([i \in 1..n |-> e], 1, n)
GenEntries ==
    {<<>>, <<Entry(<<>>)>>, <<Entry(<<100, Comma, 81>>)>>,
     Times(2, Entry(<<>>)), Times(3, Entry(<<>>))}

\* entries.find(e => e.images.length > 0)?.images[0]
referenceImage(es) ==
    LET with == {i \in 1..Len(es) : Len(es[i].images) > 0}
    IN  IF with = {} THEN <<>> ELSE es[Min(with)].images[1]

AnalysisOp ==
    IF comp = "VideoGenerator" THEN "analyzeJournalForVideo"
    ELSE "analyzeLifeProfile"

GenResponses ==
    {NoResponse, TextOf("{ \"prompt\": \"p\" }"), TextOf("null"), TextOf("{")}

\* The prompt field of a parsed analysis.
ResultPrompt == <<112>>

NewRun == [h |-> "ana", ana |-> TxtPending, vid |-> VidIdle, aud |-> AudIdle]

\* The catch blocks: VideoGenerator 82-86, LifeCinema 59-63.
Catch(u, e) ==
    [u EXCEPT !.errorMsg =
                  IF comp = "VideoGenerator"
                      THEN (IF e # "" THEN e ELSE "Failed to generate MTV.")
                  ELSE "Failed to compose your Life Cinema. Please try again.",
              !.status = "ERROR"]

\* What is on screen.
Visible == mounted /\ (comp = "VideoGenerator" => hasKey)
Working == ui.status \in {"ANALYZING", "GENERATING"}
ResultBlock == ui.status = "COMPLETED" /\ ui.videoUrl # 0
ShownAnalysis ==
    IF Visible /\ (Working \/ ResultBlock) THEN ui.analysis ELSE 0
ShownVideo == IF Visible /\ ResultBlock THEN ui.videoUrl ELSE 0
ShownAudio == IF Visible /\ ResultBlock THEN ui.audioUrl ELSE 0
ShownError ==
    IF Visible /\ comp = "VideoGenerator" /\ ui.status = "ERROR"
        THEN ui.errorMsg
    ELSE IF Visible /\ comp = "LifeCinema" /\ ui.status = "IDLE"
        THEN ui.errorMsg
    ELSE NoMsg

\* The buttons: Generate / Begin Analysis and Regenerate; Try Again; Close.
StartOffered == Visible /\ (ui.status = "IDLE" \/ ResultBlock)
TryAgainOffered == Visible /\ comp = "VideoGenerator" /\ ui.status = "ERROR"
CloseOffered == Visible /\ comp = "VideoGenerator" /\ ResultBlock

-----------------------------------------------------------------------------
(* Editor: tag suggestions                                                  *)

\* Most tags one answer of suggestTags holds.
MaxSuggested == 2

\* [...new Set(xs)]: the first occurrence of each element, in order.
RECURSIVE Unique(_)
Unique(xs) ==
    IF xs = <<>> THEN <<>>
    ELSE LET init == Unique(SubSeq(xs, 1, Len(xs) - 1))
             last == xs[Len(xs)]
         IN  IF \E i \in 1..Len(init) : init[i] = last THEN init
             ELSE Append(init, last)

\* content.trim() for the contents the model types: "" and " " are blank.
trim(s) == IF s = " " THEN "" ELSE s

\* What suggestTags resolves with: a list of tags, or a JSON value that
\* cannot be spread (null, an object).
Suggested(ts) == [kind |-> "list", tags |-> ts]
NotIterable == [kind |-> "other", tags |-> <<>>]

\* A call of handleSuggestTags: tags is the tags of the render whose
\* handler was called (the handler's closure), result what suggestTags
\* resolved with.
NoSuggestion == [state |-> "none", tags |-> <<>>, result |-> NotIterable]

\* The tags after `await suggestTags(...)` has resolved with result in the
\* handler whose closure holds closureTags, the tags being current now.
setTagsAfterSuggest(closureTags, current, result) ==
    IF result.kind = "list" THEN Unique(closureTags \o result.tags)
    ELSE current

EdIdle ==
    /\ edContent = "" /\ edTags = <<>> /\ isSuggesting = FALSE
    /\ suggestion = NoSuggestion

-----------------------------------------------------------------------------
(* App: JSON values, entries, the stored document                           *)
(*                                                                          *)
(* A JavaScript value is a record: t is its type, s the text of a string or *)
(* number, items the elements of an array.                                  *)

Und == [t |-> "undefined", s |-> "", items |-> <<>>]
Nul == [t |-> "null", s |-> "", items |-> <<>>]
Str(x) == [t |-> "string", s |-> x, items |-> <<>>]
Num(x) == [t |-> "number", s |-> x, items |-> <<>>]
Arr(xs) == [t |-> "array", s |-> "", items |-> xs]
Obj == [t |-> "object", s |-> "", items |-> <<>>]

\* The value as a condition (in `a || b` and `a ? b : c`).
ToBoolean(v) ==
    \/ v.t = "string" /\ v.s # ""
    \/ v.t = "number" /\ v.s # "0"
    \/ v.t \in {"array", "object"}

\* a || b
Or(a, b) == IF ToBoolean(a) THEN a ELSE b

\* new Date().toISOString()
Now == Str("<now>")

\* An element of an imported list: t is its type and, for an object, the
\* other fields are its properties (Und when absent).  Property reads on a
\* number or string give undefined; on null they throw.
RawObject(date, creationDate, text, content, photos, mood, tags) ==
    [t |-> "object", date |-> date, creationDate |-> creationDate,
     text |-> text, content |-> content, photos |-> photos, mood |-> mood,
     tags |-> tags]
RawOther(type) ==
    [t |-> type, date |-> Und, creationDate |-> Und, text |-> Und,
     content |-> Und, photos |-> Und, mood |-> Und, tags |-> Und]

\* A function on 1..n as a sequence.
Tuple(f) == SubSeq(f, 1, Len(f))

\* A parsed import file: t is the type of the top-level value ("invalid":
\* the text is not JSON), items its elements when it is an array, entries
\* its `entries` property (Und when absent or when the value is no object).
File(type, items, entriesProp) ==
    [t |-> type, items |-> items, entries |-> entriesProp]

\* A journal entry.
JournalEntry(id, date, content, images, mood, tags) ==
    [id |-> id, date |-> date, content |-> content, images |-> images,
     mood |-> mood, tags |-> tags]

\* raw.photos.map(p => typeof p === 'string' ? p : '')
RECURSIVE mapPhotos(_)
mapPhotos(ps) ==
    IF ps = <<>> THEN <<>>
    ELSE <<IF Head(ps).t = "string" THEN Head(ps) ELSE Str("")>>
             \o mapPhotos(Tail(ps))

\* Does the arrow function of 147-154 throw on raw?
NormalizeThrows(raw) ==
    \/ raw.t \in {"null", "undefined"}
    \/ ToBoolean(raw.photos) /\ raw.photos.t # "array"

NormalizeContentFirst(raw, id) ==
    JournalEntry(id,
                 Or(Or(raw.date, raw.creationDate), Now),
                 Or(Or(raw.content, raw.text), Str("")),
                 IF ToBoolean(raw.photos) THEN mapPhotos(raw.photos.items)
                 ELSE <<>>,
                 raw.mood,
                 Or(raw.tags, Arr(<<>>)))

\* The entry the arrow function of 147-154 returns.
Normalize(raw, id) ==
    JournalEntry(id,
                 Or(Or(raw.date, raw.creationDate), Now),
                 Or(Or(raw.text, raw.content), Str("")),
                 IF ToBoolean(raw.photos) THEN mapPhotos(raw.photos.items)
                 ELSE <<>>,
                 raw.mood,
                 Or(raw.tags, Arr(<<>>)))

\* Lines 143-154 on the parsed file, with crypto.randomUUID() drawing
\* firstId, firstId + 1, ...: the formatted list, or a throw.
Formatted(file, firstId) ==
    IF file.t \in {"invalid", "null"} THEN [kind |-> "throw", list |-> <<>>]
    ELSE LET importedEntries ==
                 IF file.t = "array" THEN Arr(file.items)
                 ELSE Or(file.entries, Arr(<<>>))
             raws == importedEntries.items
         IN  IF importedEntries.t # "array"
                    \/ \E i \in 1..Len(raws) : NormalizeThrows(raws[i])
             THEN [kind |-> "throw", list |-> <<>>]
             ELSE [kind |-> "ok",
                   list |-> Tuple([i \in 1..Len(raws) |->
                                      Normalize(raws[i], firstId + i - 1)])]

\* JSON.stringify of one entry: a property whose value is undefined is
\* left out (only mood can be undefined).
StringifyEntryLosesMood(e) ==
    [id |-> e.id, date |-> e.date, content |-> e.content,
     images |-> e.images, tags |-> e.tags]

StringifyEntry(e) ==
    IF e.mood.t = "undefined"
    THEN [id |-> e.id, date |-> e.date, content |-> e.content,
          images |-> e.images, tags |-> e.tags]
    ELSE e

\* JSON.parse of one stored object: reading an absent property gives
\* undefined.
ParseEntry(o) ==
    JournalEntry(o.id, o.date, o.content, o.images,
                 IF "mood" \in DOMAIN o THEN o.mood ELSE Und, o.tags)

\* The value under 'lumina_entries': none, a JSON list, or text that does
\* not parse.
NoDoc == [kind |-> "null", items |-> <<>>]
Garbage == [kind |-> "garbage", items |-> <<>>]
stringify(es) ==
    [kind |-> "json",
     items |-> Tuple([i \in 1..Len(es) |-> StringifyEntry(es[i])])]
parse(doc) == Tuple([i \in 1..Len(doc.items) |-> ParseEntry(doc.items[i])])

\* entries.filter(e => selectedIds.includes(e.id))
Includes(ids, id) == \E i \in 1..Len(ids) : ids[i] = id
getUnselectedEntries(es, ids) == SelectSeq(es, LAMBDA e : ~Includes(ids, e.id))
getSelectedEntries(es, ids) == SelectSeq(es, LAMBDA e : Includes(ids, e.id))

\* toggleSelection(id): the next selectedIds.
toggleSelection(ids, id) ==
    IF Includes(ids, id) THEN SelectSeq(ids, LAMBDA sid : sid # id)
    ELSE Append(ids, id)

\* toggleSelectionMode: the next selectedIds.
toggleModeKeepsSelection(mode, ids) == ids
toggleSelectionModeIds(mode, ids) == IF mode THEN <<>> ELSE ids

NoAlert == [kind |-> "none", count |-> 0]
SelectAlert == [kind |-> "select", count |-> 0]
ImportedAlert(n) == [kind |-> "success", count |-> n]
FailedAlert == [kind |-> "failure", count |-> 0]

\* The App not mounted, nothing stored.
NoFile == File("none", <<>>, Und)
GhostInit ==
    [stored |-> <<>>, mountDoc |-> NoDoc, mountList |-> <<>>, file |-> NoFile]

AppIdle ==
    /\ appPc = "unmounted" /\ entries = <<>> /\ pending = <<>>
    /\ storage = NoDoc /\ appView = "TIMELINE" /\ isImporting = FALSE
    /\ selectedIds = <<>> /\ isSelectionMode = FALSE
    /\ reading = FALSE /\ lastAlert = NoAlert /\ uncaught = FALSE
    /\ nextId = 1 /\ ghost = GhostInit

-----------------------------------------------------------------------------
(* State machine: one invocation of an exported operation *)

NoPromise == [state |-> "none", url |-> 0, error |-> ""]
Pending == [state |-> "pending", url |-> 0, error |-> ""]
Fulfilled(u) == [state |-> "fulfilled", url |-> u, error |-> ""]
Rejected(e) == [state |-> "rejected", url |-> 0, error |-> e]

\* Idle values: the part is not exercised.
AudioIdle ==
    /\ op = "none" /\ pc = "idle"
    /\ source = "raw" /\ pcm = <<>> /\ base64 = <<>>
    /\ dataLength = 0 /\ sampleRate = 0 /\ numChannels = 0 /\ bitsPerSample = 0
    /\ ret = NoResult /\ promise = NoPromise /\ urlStore = <<>>

SvcIdle ==
    /\ svcOp = "none" /\ svcPrompt = <<>> /\ svcImage = <<>> /\ sent = <<>>
    /\ response = NoResponse /\ txt = TxtNone /\ vid = VidIdle

InitString ==
    \/ source = "raw" /\ pcm = <<>> /\ base64 \in RawStrings
    \/ source = "encoded" /\ pcm \in PcmSamples /\ base64 = StdEncode(pcm)

InitDecode ==
    /\ op = "base64ToUint8Array"
    /\ InitString
    /\ dataLength = 0 /\ sampleRate = 0 /\ numChannels = 0 /\ bitsPerSample = 0

InitHeader ==
    /\ op = "createWavHeader"
    /\ source = "raw" /\ pcm = <<>> /\ base64 = <<>>
    /\ dataLength \in DataLengths
    /\ sampleRate \in SampleRates
    /\ numChannels \in ChannelCounts
    /\ bitsPerSample \in BitDepths
    /\ Representable(sampleRate, numChannels, bitsPerSample)

InitBlob ==
    /\ op = "pcmToWavBlob"
    /\ InitString
    /\ sampleRate \in BlobRates
    /\ dataLength = 0 /\ numChannels = 0 /\ bitsPerSample = 0

InitSpeech ==
    /\ op = "generateJournalAudio"
    /\ source = "raw" /\ pcm = <<>> /\ base64 = <<>>
    /\ dataLength = 0 /\ sampleRate = 0 /\ numChannels = 0 /\ bitsPerSample = 0

Init ==
    /\ pc = "call"
    /\ ret = NoResult
    /\ promise = NoPromise
    /\ urlStore = <<>>
    /\ SvcIdle /\ GenIdle /\ AppIdle /\ EdIdle
    /\ (InitDecode \/ InitHeader \/ InitBlob \/ InitSpeech)

args == <<op, base64, source, pcm, dataLength, sampleRate, numChannels,
          bitsPerSample>>

Base64ToUint8Array ==
    /\ op = "base64ToUint8Array" /\ pc = "call"
    /\ ret' = base64ToUint8Array(base64)
    /\ pc' = "done"
    /\ UNCHANGED <<args, promise, urlStore, nonAudio>>

CreateWavHeader ==
    /\ op = "createWavHeader" /\ pc = "call"
    /\ ret' = Value(createWavHeader(dataLength, sampleRate, numChannels,
                                    bitsPerSample))
    /\ pc' = "done"
    /\ UNCHANGED <<args, promise, urlStore, nonAudio>>

PcmToWavBlob ==
    /\ op = "pcmToWavBlob" /\ pc = "call"
    /\ ret' = pcmToWavBlob(base64, sampleRate)
    /\ pc' = "done"
    /\ UNCHANGED <<args, promise, urlStore, nonAudio>>

\* generateJournalAudio up to its await: the request is issued.
GenerateJournalAudio ==
    /\ op = "generateJournalAudio" /\ pc = "call"
    /\ promise' = Pending
    /\ pc' = "await"
    /\ UNCHANGED <<args, ret, urlStore, nonAudio>>

\* The request fails: the await throws and the async function rejects.
GenerateContentFails ==
    /\ op = "generateJournalAudio" /\ pc = "await"
    /\ promise' = Rejected("generateContent")
    /\ pc' = "done"
    /\ UNCHANGED <<args, ret, urlStore, nonAudio>>

\* The response carries no inline audio data (or an empty string).
AudioMissing ==
    /\ op = "generateJournalAudio" /\ pc = "await"
    /\ promise' = Rejected("No audio data returned")
    /\ pc' = "done"
    /\ UNCHANGED <<args, ret, urlStore, nonAudio>>

\* The response carries base64Audio; the rest of the function runs.
AudioReturned ==
    /\ op = "generateJournalAudio" /\ pc = "await"
    /\ \/ source' = "raw" /\ pcm' = <<>> /\ base64' \in RawStrings
       \/ source' = "encoded" /\ pcm' \in PcmSamples /\ base64' = StdEncode(pcm')
    /\ base64' # <<>>
    /\ LET blob == pcmToWavBlob(base64', 24000)
       IN  IF blob.kind = "throw"
           THEN /\ promise' = Rejected(blob.error)
                /\ urlStore' = urlStore
           ELSE /\ urlStore' = Append(urlStore, blob.bytes)
                /\ promise' = Fulfilled(Len(urlStore'))
    /\ pc' = "done"
    /\ UNCHANGED <<op, dataLength, sampleRate, numChannels, bitsPerSample, ret,
                 nonAudio>>

Next ==
    \/ Base64ToUint8Array
    \/ CreateWavHeader
    \/ PcmToWavBlob
    \/ GenerateJournalAudio
    \/ GenerateContentFails
    \/ AudioMissing
    \/ AudioReturned

Spec == Init /\ [][Next]_vars

-----------------------------------------------------------------------------
(* geminiService: one direct invocation of a text operation or of          *)
(* generateCinematicMemory                                                 *)

CodeUnits(k) == SubSeq([i \in 1..k |-> 97 + (i % 26)], 1, k)
PromptLengths == {0, 1, PromptLimit, PromptLimit + 1}
Prompts == {CodeUnits(k) : k \in PromptLengths}

\* 'd', ',' and 'Q': enough to build data URLs, bare payloads and strings
\* with empty pieces.
ImageChars == {100, Comma, 81}
Images == UNION {[1..k -> ImageChars] : k \in 0..MaxImageLen}

Responses ==
    {NoResponse} \cup
    {TextOf(s) : s \in {"", " ", "[]", " [ \"sea\" ] ",
                        "{ \"prompt\": \"p\" }", "null", "{"}}

\* The texts handed to a text operation: empty, one code unit, and the
\* operation's cap and one more.
Texts(o) ==
    {CodeUnits(k) : k \in {0, 1} \cup
        (CASE o = "analyzeJournalForVideo" -> {JournalLimit, JournalLimit + 1}
           [] o = "analyzeLifeProfile" -> {ProfileLimit, ProfileLimit + 1}
           [] OTHER -> {})}

InitSvc ==
    /\ AudioIdle /\ GenIdle /\ AppIdle /\ EdIdle
    /\ response = NoResponse /\ txt = TxtNone /\ vid = VidIdle
    /\ sent = <<>>
    /\ \/ svcOp \in TextOps /\ svcPrompt \in Texts(svcOp) /\ svcImage = <<>>
       \/ /\ svcOp = "generateCinematicMemory"
          /\ svcPrompt \in Prompts
          /\ svcImage \in Images

\* A text operation runs up to its await: the request is issued.
TextCall ==
    /\ svcOp \in TextOps /\ txt.state = "none"
    /\ txt' = TxtPending
    /\ sent' = Embedded(svcOp, svcPrompt)
    /\ UNCHANGED <<nonSvc, svcOp, svcPrompt, svcImage, response, vid>>

\* generateContent rejects: the await throws, the operation rejects.
TextRequestFails ==
    /\ txt.state = "pending"
    /\ txt' = TxtRejected("generateContent")
    /\ UNCHANGED <<nonSvc, svcOp, svcPrompt, svcImage, sent, response, vid>>

\* generateContent answers; the rest of the operation runs.
TextResponds ==
    /\ txt.state = "pending"
    /\ response' \in Responses
    /\ txt' = TextResult(svcOp, response')
    /\ UNCHANGED <<nonSvc, svcOp, svcPrompt, svcImage, sent, vid>>

VideoCall ==
    /\ svcOp = "generateCinematicMemory" /\ vid.pc = "idle"
    /\ vid' = generateCinematicMemory(svcPrompt, svcImage)
    /\ UNCHANGED <<nonSvc, svcOp, svcPrompt, svcImage, sent, response, txt>>

SubmitReturns ==
    /\ vid.pc = "submit"
    /\ \E j \in JobStates : vid' = Observed(vid, j[1], j[2])
    /\ UNCHANGED <<nonSvc, svcOp, svcPrompt, svcImage, sent, response, txt>>

SubmitFails ==
    /\ vid.pc = "submit"
    /\ vid' = VidReject(vid, "generateVideos")
    /\ UNCHANGED <<nonSvc, svcOp, svcPrompt, svcImage, sent, response, txt>>

\* The model follows a job for MaxPolls status polls.
TimerFires ==
    /\ vid.pc = "sleep" /\ vid.polls < MaxPolls
    /\ vid' = TimerFired(vid)
    /\ UNCHANGED <<nonSvc, svcOp, svcPrompt, svcImage, sent, response, txt>>

PollReturns ==
    /\ vid.pc = "poll"
    /\ \E j \in JobStates : vid' = Observed(vid, j[1], j[2])
    /\ UNCHANGED <<nonSvc, svcOp, svcPrompt, svcImage, sent, response, txt>>

PollFails ==
    /\ vid.pc = "poll"
    /\ vid' = VidReject(vid, "getVideosOperation")
    /\ UNCHANGED <<nonSvc, svcOp, svcPrompt, svcImage, sent, response, txt>>

FetchReturns ==
    /\ vid.pc = "fetch"
    /\ vid' = Fetched(vid)
    /\ UNCHANGED <<nonSvc, svcOp, svcPrompt, svcImage, sent, response, txt>>

FetchFails ==
    /\ vid.pc = "fetch"
    /\ vid' = VidReject(vid, "fetch")
    /\ UNCHANGED <<nonSvc, svcOp, svcPrompt, svcImage, sent, response, txt>>

BlobReturns ==
    /\ vid.pc = "blob"
    /\ vid' = BlobRead(vid)
    /\ UNCHANGED <<nonSvc, svcOp, svcPrompt, svcImage, sent, response, txt>>

BlobFails ==
    /\ vid.pc = "blob"
    /\ vid' = VidReject(vid, "blob")
    /\ UNCHANGED <<nonSvc, svcOp, svcPrompt, svcImage, sent, response, txt>>

NextSvc ==
    \/ TextCall
    \/ TextRequestFails
    \/ TextResponds
    \/ VideoCall
    \/ SubmitReturns
    \/ SubmitFails
    \/ TimerFires
    \/ PollReturns
    \/ PollFails
    \/ FetchReturns
    \/ FetchFails
    \/ BlobReturns
    \/ BlobFails

SpecSvc == InitSvc /\ [][NextSvc]_vars

-----------------------------------------------------------------------------
(* VideoGenerator and LifeCinema: the state machine *)

InitGen ==
    /\ AudioIdle /\ SvcIdle /\ AppIdle /\ EdIdle
    /\ comp \in {"VideoGenerator", "LifeCinema"}
    /\ genEntries \in GenEntries
    /\ mounted = TRUE
    /\ hasKey = (comp = "LifeCinema")
    /\ ui = UiInit
    /\ runs = <<>>

\* VideoGenerator: checkKey (on mount, or after handleSelectKey) resolves.
KeyChecked ==
    /\ mounted /\ comp = "VideoGenerator" /\ ~hasKey
    /\ hasKey' \in BOOLEAN
    /\ UNCHANGED <<nonGen, comp, genEntries, mounted, ui, runs>>

\* VideoGenerator.handleGenerate up to its first await.
HandleGenerate ==
    /\ comp = "VideoGenerator" /\ StartOffered
    /\ Len(runs) < MaxRuns
    /\ IF Len(genEntries) = 0
       THEN /\ ui' = [ui EXCEPT !.errorMsg = "No journal entries to process."]
            /\ runs' = runs
       ELSE /\ ui' = [ui EXCEPT !.status = "ANALYZING", !.errorMsg = NoMsg,
                                !.videoUrl = 0, !.audioUrl = 0]
            /\ runs' = Append(runs, NewRun)
    /\ UNCHANGED <<nonGen, comp, genEntries, mounted, hasKey>>

\* LifeCinema is given the App's whole entries list, and the App's import
\* panel stays in reach while LifeCinema is shown: an import adds an entry.
EntriesGrow ==
    /\ mounted /\ comp = "LifeCinema"
    /\ Append(genEntries, Entry(<<>>)) \in GenEntries
    /\ genEntries' = Append(genEntries, Entry(<<>>))
    /\ UNCHANGED <<nonGen, comp, mounted, hasKey, ui, runs>>

HandleStartUnchecked ==
    /\ comp = "LifeCinema" /\ StartOffered
    /\ Len(runs) < MaxRuns
    /\ ui' = [ui EXCEPT !.errorMsg = NoMsg, !.status = "ANALYZING"]
    /\ runs' = Append(runs, NewRun)
    /\ UNCHANGED <<nonGen, comp, genEntries, mounted, hasKey>>

\* LifeCinema.handleStart up to its first await.
HandleStart ==
    /\ comp = "LifeCinema" /\ StartOffered
    /\ Len(runs) < MaxRuns
    /\ IF Len(genEntries) < 3
       THEN /\ ui' = [ui EXCEPT !.errorMsg =
                  "Please write or import at least 3 journal entries to analyze your life patterns."]
            /\ runs' = runs
       ELSE /\ ui' = [ui EXCEPT !.errorMsg = NoMsg, !.status = "ANALYZING"]
            /\ runs' = Append(runs, NewRun)
    /\ UNCHANGED <<nonGen, comp, genEntries, mounted, hasKey>>

\* VideoGenerator's "Try Again" and "Close": setStatus(IDLE).
TryAgain ==
    /\ TryAgainOffered
    /\ ui' = [ui EXCEPT !.status = "IDLE"]
    /\ UNCHANGED <<nonGen, comp, genEntries, mounted, hasKey, runs>>

Close ==
    /\ CloseOffered
    /\ ui' = [ui EXCEPT !.status = "IDLE"]
    /\ UNCHANGED <<nonGen, comp, genEntries, mounted, hasKey, runs>>

\* LifeCinema's Exit (onBack) or the App's "Back to Timeline": the App
\* leaves the view and the instance unmounts.  The model follows an
\* instance until then: what is in flight goes on as it would have without
\* further user actions, and no longer reaches the discarded state.
Exit ==
    /\ mounted
    /\ mounted' = FALSE
    /\ UNCHANGED <<nonGen, comp, genEntries, hasKey, ui, runs>>

\* The handler of run r resumes in its catch block with error e.
Caught(r, e, newRun) ==
    /\ runs' = [runs EXCEPT ![r] = [newRun EXCEPT !.h = "caught"]]
    /\ ui' = Catch(ui, e)

\* The analysis request of run r rejects.
AnalysisFails ==
    /\ mounted
    /\ \E r \in 1..Len(runs) :
          /\ runs[r].h = "ana"
          /\ Caught(r, "generateContent",
                    [runs[r] EXCEPT !.ana = TxtRejected("generateContent")])
    /\ UNCHANGED <<nonGen, comp, genEntries, mounted, hasKey>>

\* The analysis request of run r is answered: the operation settles and the
\* handler runs on to Promise.all (or to its catch block).
AnalysisResponds ==
    /\ mounted
    /\ \E r \in 1..Len(runs), resp \in GenResponses :
          /\ runs[r].h = "ana"
          /\ LET res == TextResult(AnalysisOp, resp)
                 settled == [runs[r] EXCEPT !.ana = res]
             IN  IF res.state = "rejected"
                     THEN Caught(r, res.error, settled)
                 ELSE IF res.value = "null"
                     THEN /\ runs' = [runs EXCEPT ![r] =
                                         [settled EXCEPT !.h = "caught"]]
                          /\ ui' = Catch([ui EXCEPT !.analysis = 0],
                                         "TypeError")
                 ELSE /\ runs' = [runs EXCEPT ![r] =
                             [settled EXCEPT
                                 !.h = "all",
                                 !.vid = generateCinematicMemory(
                                     ResultPrompt,
                                     IF comp = "VideoGenerator"
                                     THEN referenceImage(genEntries)
                                     ELSE <<>>),
                                 !.aud = SpeechStart]]
                      /\ ui' = [ui EXCEPT !.analysis = r,
                                          !.status = "GENERATING"]
    /\ UNCHANGED <<nonGen, comp, genEntries, mounted, hasKey>>

\* Promise.all([video, audio]) of run r after one of the two has moved to v
\* resp. a: the handler resumes when one has rejected or both have
\* fulfilled, and only a handler still awaiting (h = "all") resumes.
AllRejected(v, a) == v.state = "rejected" \/ a.state = "rejected"
AnyFulfilled(v, a) == v.state = "fulfilled" \/ a.state = "fulfilled"
AllFulfilled(v, a) == v.state = "fulfilled" /\ a.state = "fulfilled"

Resumed(u, r, v, a) ==
    IF AllRejected(v, a)
        THEN Catch(u, IF v.state = "rejected" THEN v.error ELSE a.error)
    ELSE IF AllFulfilled(v, a)
        THEN [u EXCEPT !.videoUrl = r, !.audioUrl = r, !.status = "COMPLETED"]
    ELSE u

\* A run keeps no count of its status polls: the polling loop is a cycle.
Uncounted(v) == [v EXCEPT !.polls = 0, !.waited = 0]

MediaStepAlwaysResumes(r, v, a) ==
    LET resumes == AllRejected(v, a) \/ AllFulfilled(v, a)
    IN  /\ mounted
        /\ runs' = [runs EXCEPT ![r] =
                       [@ EXCEPT !.vid = Uncounted(v), !.aud = a,
                                 !.h = IF ~resumes THEN @
                                       ELSE IF AllRejected(v, a) THEN "caught"
                                       ELSE "returned"]]
        /\ ui' = IF resumes THEN Resumed(ui, r, v, a) ELSE ui
        /\ UNCHANGED <<nonGen, comp, genEntries, mounted, hasKey>>

MediaStep(r, v, a) ==
    LET resumes == runs[r].h = "all" /\ (AllRejected(v, a) \/ AllFulfilled(v, a))
    IN  /\ mounted
        /\ runs' = [runs EXCEPT ![r] =
                       [@ EXCEPT !.vid = Uncounted(v), !.aud = a,
                                 !.h = IF ~resumes THEN @
                                       ELSE IF AllRejected(v, a) THEN "caught"
                                       ELSE "returned"]]
        /\ ui' = IF resumes THEN Resumed(ui, r, v, a) ELSE ui
        /\ UNCHANGED <<nonGen, comp, genEntries, mounted, hasKey>>

RunSubmitReturns ==
    \E r \in 1..Len(runs), j \in JobStates :
        /\ runs[r].vid.pc = "submit"
        /\ MediaStep(r, Observed(runs[r].vid, j[1], j[2]), runs[r].aud)

RunSubmitFails ==
    \E r \in 1..Len(runs) :
        /\ runs[r].vid.pc = "submit"
        /\ MediaStep(r, VidReject(runs[r].vid, "generateVideos"), runs[r].aud)

RunTimerFires ==
    \E r \in 1..Len(runs) :
        /\ runs[r].vid.pc = "sleep"
        /\ MediaStep(r, TimerFired(runs[r].vid), runs[r].aud)

RunPollReturns ==
    \E r \in 1..Len(runs), j \in JobStates :
        /\ runs[r].vid.pc = "poll"
        /\ MediaStep(r, Observed(runs[r].vid, j[1], j[2]), runs[r].aud)

RunPollFails ==
    \E r \in 1..Len(runs) :
        /\ runs[r].vid.pc = "poll"
        /\ MediaStep(r, VidReject(runs[r].vid, "getVideosOperation"),
                     runs[r].aud)

RunFetchReturns ==
    \E r \in 1..Len(runs) :
        /\ runs[r].vid.pc = "fetch"
        /\ MediaStep(r, Fetched(runs[r].vid), runs[r].aud)

RunFetchFails ==
    \E r \in 1..Len(runs) :
        /\ runs[r].vid.pc = "fetch"
        /\ MediaStep(r, VidReject(runs[r].vid, "fetch"), runs[r].aud)

RunBlobReturns ==
    \E r \in 1..Len(runs) :
        /\ runs[r].vid.pc = "blob"
        /\ MediaStep(r, BlobRead(runs[r].vid), runs[r].aud)

RunBlobFails ==
    \E r \in 1..Len(runs) :
        /\ runs[r].vid.pc = "blob"
        /\ MediaStep(r, VidReject(runs[r].vid, "blob"), runs[r].aud)

RunSpeechFails ==
    \E r \in 1..Len(runs) :
        /\ runs[r].aud.pc = "await"
        /\ MediaStep(r, runs[r].vid, SpeechReject(runs[r].aud, "generateContent"))

RunSpeechResponds ==
    \E r \in 1..Len(runs), b \in SpeechPayloads :
        /\ runs[r].aud.pc = "await"
        /\ MediaStep(r, runs[r].vid, SpeechAnswered(runs[r].aud, b))

NextGen ==
    \/ KeyChecked
    \/ EntriesGrow
    \/ HandleGenerate
    \/ HandleStart
    \/ TryAgain
    \/ Close
    \/ Exit
    \/ AnalysisFails
    \/ AnalysisResponds
    \/ RunSubmitReturns
    \/ RunSubmitFails
    \/ RunTimerFires
    \/ RunPollReturns
    \/ RunPollFails
    \/ RunFetchReturns
    \/ RunFetchFails
    \/ RunBlobReturns
    \/ RunBlobFails
    \/ RunSpeechFails
    \/ RunSpeechResponds

SpecGen == InitGen /\ [][NextGen]_vars

-----------------------------------------------------------------------------
(* App: inputs *)

\* What the Editor hands to onSave (part_000:231-237): mood is undefined
\* when none was chosen.
Drafts ==
    {[date |-> Str("2024-01-01"), content |-> Str("c"), images |-> <<>>,
      tags |-> Arr(<<>>), mood |-> Und],
     [date |-> Str("2024-01-02"), content |-> Str(""),
      images |-> <<Str("img")>>, tags |-> Arr(<<Str("t")>>),
      mood |-> Str("Happy")]}

\* Entry-like objects: no property at all; every property, with a photo
\* that is no string; legacy names only, with an empty date.
RawEntries ==
    <<RawObject(Und, Und, Und, Und, Und, Und, Und),
      RawObject(Str("d"), Str("cd"), Str("t"), Str("c"),
                Arr(<<Str("p"), Num("7")>>), Str("m"), Arr(<<Str("x")>>)),
      RawObject(Str(""), Str("cd"), Und, Str("c"), Arr(<<>>), Nul, Und)>>

\* The lists of n <= MaxImport of them, starting anywhere in RawEntries
\* and going round.
RawLists ==
    {Tuple([i \in 1..n |-> RawEntries[((k + i - 2) % Len(RawEntries)) + 1]]) :
        n \in 0..MaxImport, k \in 1..Len(RawEntries)}

\* Elements that are not entry-like: photos is a string, a number, null.
OddLists ==
    {<<RawObject(Und, Und, Str("t"), Und, Str("abc"), Und, Und)>>,
     <<RawOther("number")>>,
     <<RawOther("null")>>}

ListFiles == {File("array", l, Und) : l \in RawLists \cup OddLists}
WrappedFiles == {File("object", <<>>, Arr(l)) : l \in RawLists \cup OddLists}
NonListFiles ==
    {File("object", <<>>, Und), File("object", <<>>, Nul),
     File("object", <<>>, Num("5")), File("object", <<>>, Str("abc")),
     File("object", <<>>, Obj),
     File("null", <<>>, Und), File("number", <<>>, Und),
     File("string", <<>>, Und)}
Files ==
    ListFiles \cup WrappedFiles \cup NonListFiles
        \cup {File("invalid", <<>>, Und)}

-----------------------------------------------------------------------------
(* App: the state machine.  appPc: "unmounted"; "mounting" (the first       *)
(* render's effects have run and the re-render with the loaded list is      *)
(* pending); "ready".  A handler runs together with the render and the      *)
(* effects its state updates cause; an alert is dismissed before anything   *)
(* else happens.  ghost: stored is the list whose serialization was written *)
(* last; mountDoc and mountList are the document and that list as they were *)
(* when the mount now in progress or just ended began; file is the file the *)
(* last step read.                                                          *)

InitApp ==
    /\ AudioIdle /\ SvcIdle /\ GenIdle /\ EdIdle
    /\ appPc = "unmounted" /\ entries = <<>> /\ pending = <<>>
    /\ storage \in {NoDoc, Garbage}
    /\ appView = "TIMELINE" /\ isImporting = FALSE
    /\ selectedIds = <<>> /\ isSelectionMode = FALSE
    /\ reading = FALSE /\ lastAlert = NoAlert /\ uncaught = FALSE
    /\ nextId = 1 /\ ghost = GhostInit

\* crypto.randomUUID() gives an id no entry has.  Once the page is gone the
\* entries that exist are those of the stored document.
FreshId(doc) ==
    LET used == {doc.items[i].id : i \in 1..Len(doc.items)}
    IN  CHOOSE n \in 1..(Len(doc.items) + 1) : n \notin used

\* The save effect (123-125) after a render with list es; file is the
\* file this step has read, if it has read one.
SaveEffect(es, file) ==
    /\ storage' = stringify(es)
    /\ ghost' = [GhostInit EXCEPT !.stored = es, !.file = file]

\* A step that shows no alert, reads no file and writes no document.
NoEffect ==
    /\ lastAlert' = NoAlert
    /\ ghost' = [GhostInit EXCEPT !.stored = ghost.stored]
    /\ UNCHANGED storage

\* First render with entries = [], then both effects: the load effect
\* queues setEntries(JSON.parse(saved)) when saved is truthy and parses,
\* the save effect writes the serialization of [].
Mount ==
    /\ appPc = "unmounted"
    /\ entries' = <<>>
    /\ IF storage.kind = "json"
       THEN pending' = parse(storage) /\ appPc' = "mounting"
       ELSE pending' = <<>> /\ appPc' = "ready"
    /\ storage' = stringify(<<>>)
    /\ ghost' = [stored |-> <<>>, mountDoc |-> storage,
                 mountList |-> ghost.stored, file |-> NoFile]
    /\ UNCHANGED <<nonApp, selectedIds, isSelectionMode,
                   appView, isImporting, reading, lastAlert, uncaught,
                   nextId>>

\* The re-render with the loaded list, and the save effect it triggers.
Rerender ==
    /\ appPc = "mounting"
    /\ entries' = pending
    /\ pending' = <<>>
    /\ appPc' = "ready"
    /\ storage' = stringify(entries')
    /\ ghost' = [ghost EXCEPT !.stored = entries']
    /\ UNCHANGED <<nonApp, selectedIds, isSelectionMode,
                   appView, isImporting, reading, lastAlert, uncaught,
                   nextId>>

\* The page is closed or reloaded: the component state is gone, the stored
\* document stays.
Reload ==
    /\ appPc # "unmounted"
    /\ appPc' = "unmounted"
    /\ entries' = <<>> /\ pending' = <<>>
    /\ appView' = "TIMELINE" /\ isImporting' = FALSE
    /\ selectedIds' = <<>> /\ isSelectionMode' = FALSE
    /\ reading' = FALSE
    /\ nextId' = FreshId(storage)
    /\ NoEffect
    /\ UNCHANGED <<nonApp, uncaught>>

\* The Write and Photo buttons.
OpenEditor ==
    /\ appPc = "ready"
    /\ appView' = "EDITOR"
    /\ NoEffect
    /\ UNCHANGED <<nonApp, selectedIds, isSelectionMode,
                   appPc, entries, pending, isImporting,
                   reading, uncaught, nextId>>

\* The Editor's onCancel.
CancelEditor ==
    /\ appPc = "ready" /\ appView = "EDITOR"
    /\ appView' = "TIMELINE"
    /\ NoEffect
    /\ UNCHANGED <<nonApp, selectedIds, isSelectionMode,
                   appPc, entries, pending, isImporting,
                   reading, uncaught, nextId>>

handleSaveEntryReplaces ==
    /\ appPc = "ready" /\ appView = "EDITOR"
    /\ Len(entries) < MaxEntries
    /\ \E entry \in Drafts :
          entries' = <<JournalEntry(nextId, entry.date, entry.content,
                                    entry.images, entry.mood, entry.tags)>>
    /\ nextId' = nextId + 1
    /\ appView' = "TIMELINE"
    /\ lastAlert' = NoAlert
    /\ SaveEffect(entries', NoFile)
    /\ UNCHANGED <<nonApp, selectedIds, isSelectionMode,
                   appPc, pending, isImporting, reading, uncaught>>

handleSaveEntry ==
    /\ appPc = "ready" /\ appView = "EDITOR"
    /\ Len(entries) < MaxEntries
    /\ \E entry \in Drafts :
          entries' = <<JournalEntry(nextId, entry.date, entry.content,
                                    entry.images, entry.mood, entry.tags)>>
                         \o entries
    /\ nextId' = nextId + 1
    /\ appView' = "TIMELINE"
    /\ lastAlert' = NoAlert
    /\ SaveEffect(entries', NoFile)
    /\ UNCHANGED <<nonApp, selectedIds, isSelectionMode,
                   appPc, pending, isImporting, reading, uncaught>>

\* The Import button (243) and the panel's Cancel (279).
ToggleImport ==
    /\ appPc = "ready"
    /\ isImporting' = ~isImporting
    /\ NoEffect
    /\ UNCHANGED <<nonApp, selectedIds, isSelectionMode,
                   appPc, entries, pending, appView, reading,
                   uncaught, nextId>>

CancelImport ==
    /\ appPc = "ready" /\ isImporting
    /\ isImporting' = FALSE
    /\ NoEffect
    /\ UNCHANGED <<nonApp, selectedIds, isSelectionMode,
                   appPc, entries, pending, appView, reading,
                   uncaught, nextId>>

\* handleImport with a file chosen: the reader starts.  The model follows
\* one reader at a time: the next file is chosen when this one has loaded.
handleImport ==
    /\ appPc = "ready" /\ isImporting /\ ~reading
    /\ reading' = TRUE
    /\ NoEffect
    /\ UNCHANGED <<nonApp, selectedIds, isSelectionMode,
                   appPc, entries, pending, appView,
                   isImporting, uncaught, nextId>>

\* reader.onload of a reader in flight, its file holding the text of file;
\* then the alert, the render and the save effect.
FileLoaded ==
    /\ appPc = "ready" /\ reading
    /\ reading' = FALSE
    /\ uncaught' = FALSE
    /\ \E file \in Files :
          LET out == Formatted(file, nextId)
          IN  IF out.kind = "ok"
              THEN /\ Len(entries) + Len(out.list) <= MaxEntries
                   /\ entries' = entries \o out.list
                   /\ nextId' = nextId + Len(out.list)
                   /\ isImporting' = FALSE
                   /\ lastAlert' = ImportedAlert(Len(out.list))
                   /\ SaveEffect(entries', file)
              ELSE /\ lastAlert' = FailedAlert
                   /\ ghost' = [GhostInit EXCEPT !.stored = ghost.stored,
                                                 !.file = file]
                   /\ UNCHANGED <<entries, nextId, isImporting, storage>>
    /\ UNCHANGED <<nonApp, selectedIds, isSelectionMode,
                   appPc, pending, appView>>

\* The Timeline button of the sidebar.
NavTimeline ==
    /\ appPc = "ready"
    /\ appView' = "TIMELINE"
    /\ selectedIds' = <<>>
    /\ isSelectionMode' = FALSE
    /\ NoEffect
    /\ UNCHANGED <<nonApp, appPc, entries, pending, isImporting, reading,
                   uncaught, nextId>>

\* The Life Cinema button of the sidebar.
NavLifeCinema ==
    /\ appPc = "ready"
    /\ appView' = "LIFE_CINEMA"
    /\ NoEffect
    /\ UNCHANGED <<nonApp, selectedIds, isSelectionMode,
                   appPc, entries, pending, isImporting, reading,
                   uncaught, nextId>>

\* EntryDetail's and LifeCinema's onBack, the MTV view's Back to Timeline.
BackToTimeline ==
    /\ appPc = "ready" /\ appView \in {"DETAIL", "MTV", "LIFE_CINEMA"}
    /\ appView' = "TIMELINE"
    /\ NoEffect
    /\ UNCHANGED <<nonApp, selectedIds, isSelectionMode,
                   appPc, entries, pending, isImporting, reading,
                   uncaught, nextId>>

\* Select Multiple / Cancel selection in the timeline's header.
toggleSelectionMode ==
    /\ appPc = "ready" /\ appView = "TIMELINE"
    /\ isSelectionMode' = ~isSelectionMode
    /\ selectedIds' = toggleSelectionModeIds(isSelectionMode, selectedIds)
    /\ NoEffect
    /\ UNCHANGED <<nonApp, appPc, entries, pending, appView, isImporting,
                   reading, uncaught, nextId>>

\* A click on the card of an entry of the timeline (JournalList).
handleCardClick ==
    /\ appPc = "ready" /\ appView = "TIMELINE"
    /\ \E i \in 1..Len(entries) :
          IF isSelectionMode
          THEN /\ selectedIds' = toggleSelection(selectedIds, entries[i].id)
               /\ UNCHANGED appView
          ELSE /\ appView' = "DETAIL"
               /\ UNCHANGED selectedIds
    /\ NoEffect
    /\ UNCHANGED <<nonApp, isSelectionMode, appPc, entries, pending,
                   isImporting, reading, uncaught, nextId>>

\* A click on Generate MTV, which is rendered in selection mode and
\* disabled while nothing is selected.
startMtvMode ==
    /\ appPc = "ready" /\ appView = "TIMELINE"
    /\ isSelectionMode /\ Len(selectedIds) # 0
    /\ IF Len(selectedIds) = 0
       THEN /\ lastAlert' = SelectAlert
            /\ ghost' = [GhostInit EXCEPT !.stored = ghost.stored]
            /\ UNCHANGED <<appView, storage>>
       ELSE /\ appView' = "MTV"
            /\ NoEffect
    /\ UNCHANGED <<nonApp, selectedIds, isSelectionMode,
                   appPc, entries, pending, isImporting, reading,
                   uncaught, nextId>>

NextApp ==
    \/ Mount
    \/ Rerender
    \/ Reload
    \/ OpenEditor
    \/ CancelEditor
    \/ handleSaveEntry
    \/ ToggleImport
    \/ CancelImport
    \/ handleImport
    \/ FileLoaded
    \/ NavTimeline
    \/ NavLifeCinema
    \/ BackToTimeline
    \/ toggleSelectionMode
    \/ handleCardClick
    \/ startMtvMode

SpecApp == InitApp /\ [][NextApp]_vars

-----------------------------------------------------------------------------
(* Editor: the state machine.  The Editor has no images here, so the AI    *)
(* Tags button is enabled when the content is not empty and no suggestion  *)
(* is in flight.                                                            *)

TagNames == {"a", "b", "c"}
Contents == {"", " ", "c"}
TagLists == UNION {[1..n -> TagNames] : n \in 0..MaxSuggested}
Results == {Suggested(ts) : ts \in TagLists} \cup {NotIterable}

InitEd ==
    /\ AudioIdle /\ SvcIdle /\ GenIdle /\ AppIdle
    /\ edContent = "" /\ edTags = <<>> /\ isSuggesting = FALSE
    /\ suggestion = NoSuggestion

\* The textarea's onChange.
SetContent ==
    /\ edContent' \in Contents \ {edContent}
    /\ UNCHANGED <<nonEd, edTags, isSuggesting, suggestion>>

\* The x button of a tag.
RemoveTag ==
    /\ \E i \in 1..Len(edTags) :
          edTags' = SelectSeq(edTags, LAMBDA t : t # edTags[i])
    /\ UNCHANGED <<nonEd, edContent, isSuggesting, suggestion>>

\* A click on AI Tags: handleSuggestTags up to its await.
handleSuggestTags ==
    /\ ~isSuggesting /\ edContent # ""
    /\ IF trim(edContent) = ""
       THEN UNCHANGED <<isSuggesting, suggestion>>
       ELSE /\ isSuggesting' = TRUE
            /\ suggestion' = [state |-> "pending", tags |-> edTags,
                              result |-> NotIterable]
    /\ UNCHANGED <<nonEd, edContent, edTags>>

\* suggestTags resolves; the handler sets the tags (or the spread throws
\* and the catch block logs), then the finally block runs.
SuggestResolves ==
    /\ suggestion.state = "pending"
    /\ \E result \in Results :
          /\ suggestion' = [suggestion EXCEPT !.state = "fulfilled",
                                              !.result = result]
          /\ edTags' = Tuple(setTagsAfterSuggest(suggestion.tags, edTags,
                                                 result))
    /\ isSuggesting' = FALSE
    /\ UNCHANGED <<nonEd, edContent>>

\* suggestTags rejects: catch, then finally.
SuggestRejects ==
    /\ suggestion.state = "pending"
    /\ suggestion' = [suggestion EXCEPT !.state = "rejected"]
    /\ isSuggesting' = FALSE
    /\ UNCHANGED <<nonEd, edContent, edTags>>

NextEd ==
    \/ SetContent
    \/ RemoveTag
    \/ handleSuggestTags
    \/ SuggestResolves
    \/ SuggestRejects

SpecEd == InitEd /\ [][NextEd]_vars

-----------------------------------------------------------------------------
(* Reading a container back, as a standard WAV reader does *)

Field(b, offset, n) == SubSeq(b, offset + 1, offset + n)
U16LE(b, offset) == b[offset + 1] + 256 * b[offset + 2]
U32LE(b, offset) ==
    b[offset + 1] + 256 * b[offset + 2] + 65536 * b[offset + 3]
        + 16777216 * b[offset + 4]

Done(o) == op = o /\ pc = "done"
PositiveParams == sampleRate > 0 /\ numChannels > 0 /\ bitsPerSample > 0

\* The containers the behaviour has produced: the Blob pcmToWavBlob returned
\* and the Blobs generateJournalAudio registered.
Containers ==
    (IF Done("pcmToWavBlob") /\ ret.kind = "value" THEN {ret.bytes} ELSE {})
        \cup {urlStore[i] : i \in 1..Len(urlStore)}

-----------------------------------------------------------------------------
\* C1: the header createWavHeader builds is 44 bytes for all positive
\* parameters, and the container pcmToWavBlob assembles from a payload p
\* (header followed by p) has length exactly 44 + len(p).
C1_HeaderSizeInvariant ==
    /\ Done("createWavHeader") /\ PositiveParams
          => ret.kind = "value" /\ Len(ret.bytes) = 44
    /\ Done("pcmToWavBlob") /\ source = "encoded"
          => ret.kind = "value" /\ Len(ret.bytes) = 44 + Len(pcm)
    /\ Done("generateJournalAudio") /\ source = "encoded" /\ base64 # <<>>
          => Len(urlStore) = 1 /\ Len(urlStore[1]) = 44 + Len(pcm)

C1_Witness ==
    /\ Done("pcmToWavBlob") /\ source = "encoded"
    /\ Len(pcm) = 3 /\ ret.kind = "value" /\ Len(ret.bytes) = 47

\* C2: in every header and container the little-endian field at offset 4 is
\* 36 + payload length and the field at offset 40 is the payload length; an
\* empty payload gives a 44-byte container holding 36 and 0.
C2_LengthFields ==
    /\ Done("createWavHeader")
          => /\ U32LE(ret.bytes, 4) = 36 + dataLength
             /\ U32LE(ret.bytes, 40) = dataLength
    /\ \A c \in Containers :
          /\ U32LE(c, 4) = 36 + (Len(c) - 44)
          /\ U32LE(c, 40) = Len(c) - 44
    /\ Done("pcmToWavBlob") /\ source = "encoded"
          => /\ U32LE(ret.bytes, 4) = 36 + Len(pcm)
             /\ U32LE(ret.bytes, 40) = Len(pcm)
             /\ (pcm = <<>> => /\ Len(ret.bytes) = 44
                               /\ Field(ret.bytes, 4, 4) = <<36, 0, 0, 0>>
                               /\ Field(ret.bytes, 40, 4) = <<0, 0, 0, 0>>)

C2_Witness ==
    /\ Done("createWavHeader") /\ dataLength = 16909060
    /\ Field(ret.bytes, 40, 4) = <<4, 3, 2, 1>>
    /\ Field(ret.bytes, 4, 4) = <<40, 3, 2, 1>>

\* C3: the input-independent header bytes are fixed: "RIFF" at 0, "WAVE" at
\* 8, "fmt " at 12, "data" at 36, 16 in the 4-byte field at 16 and 1 in the
\* 2-byte field at 20.
MagicBytes(b) ==
    /\ Field(b, 0, 4) = <<82, 73, 70, 70>>
    /\ Field(b, 8, 4) = <<87, 65, 86, 69>>
    /\ Field(b, 12, 4) = <<102, 109, 116, 32>>
    /\ Field(b, 36, 4) = <<100, 97, 116, 97>>
    /\ U32LE(b, 16) = 16
    /\ U16LE(b, 20) = 1

C3_MagicStrings ==
    /\ Done("createWavHeader") /\ PositiveParams => MagicBytes(ret.bytes)
    /\ \A c \in Containers : MagicBytes(c)

C3_Witness ==
    /\ Done("createWavHeader") /\ PositiveParams
    /\ dataLength = 65536 /\ numChannels = 2
    /\ Field(ret.bytes, 0, 4) = <<82, 73, 70, 70>>
    /\ Field(ret.bytes, 36, 4) = <<100, 97, 116, 97>>

\* C4 (as stated): for all positive parameters the format chunk holds
\* channelCount at 22, sampleRate at 24, sampleRate * channelCount *
\* (bitsPerSample / 8) at 28, channelCount * (bitsPerSample / 8) at 32 and
\* bitsPerSample at 34.
C4_Original ==
    Done("createWavHeader") /\ PositiveParams
        => /\ U16LE(ret.bytes, 22) = numChannels
           /\ U32LE(ret.bytes, 24) = sampleRate
           /\ 8 * U32LE(ret.bytes, 28) = sampleRate * numChannels * bitsPerSample
           /\ 8 * U16LE(ret.bytes, 32) = numChannels * bitsPerSample
           /\ U16LE(ret.bytes, 34) = bitsPerSample

\* The nominal values fit their fields: bitsPerSample is a multiple of 8 and
\* the 2-byte values are below 2^16.
FieldsFit ==
    /\ bitsPerSample % 8 = 0
    /\ numChannels < 65536
    /\ bitsPerSample < 65536
    /\ numChannels * bitsPerSample < 8 * 65536

\* C4 (amended): for all positive parameters each format-chunk field holds
\* its nominal value truncated toward zero to an integer and reduced modulo
\* 2^16 (2-byte fields); when bitsPerSample is a multiple of 8 and the values
\* fit their fields these are the nominal values themselves, and for
\* (24000, 1, 16) they are 1, 24000, 48000, 2 and 16.
C4_FormatFields ==
    Done("createWavHeader") /\ PositiveParams
        => /\ U16LE(ret.bytes, 22) = numChannels % 65536
           /\ U32LE(ret.bytes, 24) = sampleRate
           /\ U32LE(ret.bytes, 28)
                 = (sampleRate * numChannels * bitsPerSample) \div 8
           /\ U16LE(ret.bytes, 32) = ((numChannels * bitsPerSample) \div 8) % 65536
           /\ U16LE(ret.bytes, 34) = bitsPerSample % 65536
           /\ FieldsFit
                 => /\ U16LE(ret.bytes, 22) = numChannels
                    /\ 8 * U32LE(ret.bytes, 28)
                          = sampleRate * numChannels * bitsPerSample
                    /\ 8 * U16LE(ret.bytes, 32) = numChannels * bitsPerSample
                    /\ U16LE(ret.bytes, 34) = bitsPerSample
           /\ (sampleRate = 24000 /\ numChannels = 1 /\ bitsPerSample = 16)
                 => /\ Field(ret.bytes, 22, 2) = <<1, 0>>
                    /\ Field(ret.bytes, 24, 4) = <<192, 93, 0, 0>>
                    /\ Field(ret.bytes, 28, 4) = <<128, 187, 0, 0>>
                    /\ Field(ret.bytes, 32, 2) = <<2, 0>>
                    /\ Field(ret.bytes, 34, 2) = <<16, 0>>

C4_Witness ==
    /\ Done("createWavHeader")
    /\ sampleRate = 24000 /\ numChannels = 1 /\ bitsPerSample = 16
    /\ U32LE(ret.bytes, 24) = 24000
    /\ U32LE(ret.bytes, 28) = 48000
    /\ U16LE(ret.bytes, 32) = 2

\* C5: the payload is copied verbatim behind the header (output byte 44 + i
\* is p[i]), every payload is accepted, and outside the two length fields the
\* header does not depend on the payload.
C5_PayloadVerbatim ==
    /\ Done("pcmToWavBlob") /\ source = "encoded"
          => /\ ret.kind = "value"
             /\ Len(ret.bytes) = 44 + Len(pcm)
             /\ \A i \in 1..Len(pcm) : ret.bytes[44 + i] = pcm[i]
             /\ \A k \in (0..43) \ ((4..7) \cup (40..43)) :
                   ret.bytes[k + 1]
                       = createWavHeader(0, sampleRate, 1, 16)[k + 1]
    /\ Done("generateJournalAudio") /\ source = "encoded" /\ base64 # <<>>
          => /\ promise.state = "fulfilled"
             /\ Field(urlStore[promise.url], 44, Len(pcm)) = pcm

C5_Witness ==
    /\ Done("pcmToWavBlob") /\ source = "encoded"
    /\ pcm = <<255, 128, 0>>
    /\ ret.kind = "value"
    /\ Field(ret.bytes, 44, 3) = <<255, 128, 0>>

\* C6 (as stated): createWavHeader fails, producing no header, whenever
\* sampleRate, channelCount or bitsPerSample is zero or negative.
C6_InvalidParametersRejected ==
    Done("createWavHeader") /\ ~PositiveParams => ret.kind = "throw"

\* What the claim calls malformed: a character outside [A-Za-z0-9+/=], or a
\* length that is not a whole number of 4-character groups.
Malformed(s) ==
    \/ \E i \in 1..Len(s) : ~IsBase64Char(s[i]) /\ s[i] # 61
    \/ Len(s) % 4 # 0

\* C7 (as stated): base64ToUint8Array fails on every input that contains a
\* character outside [A-Za-z0-9+/=] or has an invalid padding length.
C7_MalformedRejected ==
    Done("base64ToUint8Array") /\ Malformed(base64) => ret.kind = "throw"

\* C8: decoding the standard encoding of a byte sequence gives that byte
\* sequence back, byte for byte and in length.
C8_RoundTrip ==
    Done("base64ToUint8Array") /\ source = "encoded" => ret = Value(pcm)

C8_Witness ==
    /\ Done("base64ToUint8Array") /\ source = "encoded"
    /\ pcm = <<255, 200, 0>>
    /\ base64 = <<47, 56, 103, 65>>
    /\ ret.bytes = <<255, 200, 0>>

\* C10: pcmToWavBlob(base64, sampleRate) is the header for (decoded length,
\* sampleRate, 1 channel, 16 bits) followed by the decoded bytes, with rate
\* 24000 in generateJournalAudio; a decode failure is thrown on unchanged,
\* rejects generateJournalAudio with that same error and registers no URL.
C10_Composition ==
    LET decoded == base64ToUint8Array(base64)
        wav(rate) == createWavHeader(Len(decoded.bytes), rate, 1, 16) \o decoded.bytes
    IN  /\ Done("pcmToWavBlob")
              => IF decoded.kind = "throw"
                 THEN ret = decoded
                 ELSE /\ ret = Value(wav(sampleRate))
                      /\ U16LE(ret.bytes, 22) = 1
                      /\ U16LE(ret.bytes, 34) = 16
                      /\ U32LE(ret.bytes, 24) = sampleRate
        /\ Done("generateJournalAudio") /\ base64 # <<>>
              => IF decoded.kind = "throw"
                 THEN promise = Rejected(decoded.error) /\ urlStore = <<>>
                 ELSE /\ promise = Fulfilled(1)
                      /\ urlStore = <<wav(24000)>>
                      /\ U32LE(urlStore[1], 24) = 24000
                      /\ U16LE(urlStore[1], 22) = 1
                      /\ U16LE(urlStore[1], 34) = 16

C10_Witness ==
    /\ Done("generateJournalAudio")
    /\ base64 = <<81>>
    /\ promise = Rejected("InvalidCharacterError")
    /\ urlStore = <<>>

-----------------------------------------------------------------------------
(* geminiService: text operations and video polling *)

TextSettled(o) == svcOp = o /\ txt.state \in {"fulfilled", "rejected"}
VideoPending == svcOp = "generateCinematicMemory" /\ vid.state = "pending"
RemoteFailures == {"generateVideos", "getVideosOperation", "fetch", "blob"}

\* C11: each of analyzeJournalForVideo, analyzeLifeProfile and suggestTags
\* treats an absent or empty response text as a hard error: once the
\* operation has settled on such a response it has thrown (its promise is
\* rejected), never returned a value.
C11_EmptyTextIsHardError ==
    \A o \in TextOps :
        TextSettled(o) /\ ~Truthy(response) => txt.state = "rejected"

\* C12: the download is issued only after the job was observed done (the
\* last observed state has done = TRUE and a URI), at most once; the
\* completed waits are exactly one 5000 ms timer per status poll; a job
\* observed done with zero polls has its download issued at once.
C12_PollThenFetch ==
    /\ vid.fetches > 0 => vid.done /\ vid.hasUri
    /\ vid.pc \in {"fetch", "blob"} => vid.done /\ vid.fetches = 1
    /\ vid.fetches <= 1
    /\ vid.waited = PollDelay * vid.polls
    /\ vid.polls = 0 /\ vid.done /\ vid.hasUri => vid.fetches = 1
    /\ vid.pc \in {"sleep", "poll"} => ~vid.done /\ vid.state = "pending"
    /\ vid.state = "fulfilled" => vid.done /\ vid.fetches = 1 /\ vid.urls = 1

C12_Witness ==
    /\ svcOp = "generateCinematicMemory"
    /\ vid.polls = 2 /\ vid.waited = 10000
    /\ vid.state = "fulfilled"

\* C17: polling has no bound: while the job has not been observed done the
\* invocation stays pending at every step, whatever the number of polls,
\* unless a remote call fails; it settles in no other way.
C17_UnboundedPolling ==
    [][VideoPending /\ ~vid'.done
          => \/ vid'.state = "pending"
             \/ vid'.state = "rejected" /\ vid'.error \in RemoteFailures]_vars

C17_Witness ==
    /\ VideoPending /\ ~vid.done
    /\ vid.polls = MaxPolls /\ vid.pc = "sleep"

-----------------------------------------------------------------------------
(* VideoGenerator and LifeCinema *)

Run(r) == runs[r]
RunIds == 1..Len(runs)
MissingUri(v) == v.done /\ ~v.hasUri

\* The remote requests of a run other than status polls: the analysis (one,
\* issued when the run starts), the video submission, the download, the
\* speech synthesis.
Requests(run) == 1 + run.vid.submits + run.vid.fetches + run.aud.requests

\* C13: whenever a run has failed (status ERROR) the component shows the
\* error and offers, inside the component, an action from which a new run
\* can be started (Try Again, or the start button itself).
C13_TryAgainOffered ==
    mounted /\ ui.status = "ERROR"
        => ShownError # NoMsg /\ (TryAgainOffered \/ StartOffered)

\* C18 as stated: within a run each remote request other than a status
\* poll is issued at most once, once the run has failed it issues no
\* further such request, and a run starts only by handleGenerate or
\* handleStart.
C18_Original ==
    [][/\ \A r \in 1..Len(runs') :
              /\ runs'[r].vid.submits <= 1 /\ runs'[r].vid.fetches <= 1
              /\ runs'[r].aud.requests <= 1
       /\ \A r \in RunIds :
              Run(r).h = "caught" => Requests(runs'[r]) = Requests(Run(r))
       /\ Len(runs') > Len(runs) => HandleGenerate \/ HandleStart]_vars

\* C18, amended: each remote request other than a status poll is issued at
\* most once per run; an operation that has failed is never resumed or
\* re-issued; after a failed analysis the run issues nothing more; a run
\* starts only by handleGenerate or handleStart.  (The other generation of
\* a failed run, already in flight, goes on.)
C18_NoRetry ==
    [][/\ \A r \in 1..Len(runs') :
              /\ runs'[r].vid.submits <= 1 /\ runs'[r].vid.fetches <= 1
              /\ runs'[r].aud.requests <= 1
       /\ \A r \in RunIds :
              /\ Run(r).ana.state = "rejected" => runs'[r] = Run(r)
              /\ Run(r).vid.state = "rejected" => runs'[r].vid = Run(r).vid
              /\ Run(r).aud.state = "rejected" => runs'[r].aud = Run(r).aud
       /\ Len(runs') > Len(runs) => HandleGenerate \/ HandleStart]_vars

C18_Witness ==
    \E r \in RunIds :
        /\ Run(r).h = "caught" /\ Run(r).aud.state = "rejected"
        /\ Run(r).vid.state = "fulfilled" /\ Run(r).vid.fetches = 1
        /\ ui.status = "ERROR"

\* C19: while status is ANALYZING or GENERATING no analysis text, video or
\* audio is on screen, and nothing produced by a run whose analysis
\* succeeded and whose video or audio failed is ever on screen.
C19_OnlyAtEnd ==
    /\ Working => ShownAnalysis = 0 /\ ShownVideo = 0 /\ ShownAudio = 0
    /\ \A r \in RunIds :
          Run(r).ana.state = "fulfilled" /\ Run(r).h = "caught"
              => ShownAnalysis # r /\ ShownVideo # r /\ ShownAudio # r

\* C20: a video job observed done without a media URI makes
\* generateCinematicMemory reject with "Failed to generate video URI",
\* with no download issued and no object URL created; the run's handler
\* ends in its catch block, and when the handler was still awaiting the
\* two generations that very step sets status ERROR.
C20_MissingUriFails ==
    [][\A r \in 1..Len(runs') :
          MissingUri(runs'[r].vid)
              => /\ runs'[r].vid.state = "rejected"
                 /\ runs'[r].vid.error = "Failed to generate video URI"
                 /\ runs'[r].vid.fetches = 0 /\ runs'[r].vid.urls = 0
                 /\ runs'[r].h = "caught"
                 /\ r <= Len(runs) /\ Run(r).h = "all"
                        => ui'.status = "ERROR"]_vars

C20_Witness ==
    \E r \in RunIds :
        /\ MissingUri(Run(r).vid) /\ Run(r).aud.state = "pending"
        /\ Run(r).h = "caught"
        /\ ui.status = "ERROR"

-----------------------------------------------------------------------------
(* App: persistence and import *)

\* A step in which a reader in flight calls its onload; ghost'.file is
\* the file it has read.
LoadStep ==
    /\ appPc = "ready" /\ appPc' = "ready"
    /\ ghost'.file # NoFile

\* C14: the entries are stored as one whole document: whenever a mount or
\* a handler has finished and the effects have run, the document under
\* 'lumina_entries' is the serialization of the whole current list; and a
\* mount that finds such a document ends with the list in memory equal to
\* the list persisted before the mount and with the document as it was
\* before the mount, whatever the mount-time write of the empty list did
\* in between.
C14_WholeDocument ==
    [][/\ appPc' = "ready" => storage' = stringify(entries')
       /\ appPc = "mounting" /\ appPc' = "ready"
            => /\ entries' = ghost.mountList
               /\ storage' = ghost.mountDoc]_vars

\* A second mount has ended with the two entries persisted before it, one
\* of them without a mood and one with a mood.
C14_Witness ==
    /\ appPc = "ready"
    /\ ghost.mountDoc.kind = "json"
    /\ entries = ghost.mountList
    /\ Len(entries) = 2
    /\ \E i, j \in 1..Len(entries) :
          entries[i].mood = Und /\ entries[j].mood.t = "string"

\* The list an import document holds, when it holds one: the document
\* itself, or its `entries` field.
Listed(file) ==
    IF file.t = "array" THEN file.items
    ELSE IF file.t = "object" /\ file.entries.t = "array"
        THEN file.entries.items
    ELSE <<>>
HoldsList(file) ==
    \/ file.t = "array"
    \/ file.t = "object" /\ file.entries.t = "array"

\* An entry-like object: an object whose photos, if it has any, are a list.
EntryLike(raw) ==
    raw.t = "object" /\ raw.photos.t \in {"undefined", "array"}

\* The first of a and b that is present and not empty, else c.
FirstOf(a, b, c) ==
    IF a.t \notin {"undefined", "null"} /\ a.s # "" THEN a
    ELSE IF b.t \notin {"undefined", "null"} /\ b.s # "" THEN b
    ELSE c

\* e is raw in the canonical shape.
Canonical(e, raw) ==
    /\ e.date = FirstOf(raw.date, raw.creationDate, Str("<now>"))
    /\ e.content = FirstOf(raw.text, raw.content, Str(""))
    /\ Len(e.images) = Len(raw.photos.items)
    /\ \A i \in 1..Len(e.images) :
          raw.photos.items[i].t = "string" => e.images[i] = raw.photos.items[i]
    /\ e.mood = raw.mood
    /\ e.tags = IF raw.tags.t \in {"undefined", "null"} THEN Arr(<<>>) ELSE raw.tags

\* C15: when the file read is a list of n entry-like objects, or an object
\* whose `entries` is such a list, the import announces n entries and adds
\* exactly n entries after the ones already there, in the document's
\* order, each with an id no other entry has, the date from `date` or
\* `creationDate` or else now, the content from `text` or `content` or else
\* empty, the images from `photos` or else none, the mood, and the tags or
\* else an empty list.
C15_ImportNormalizes ==
    [][LET raws == Listed(ghost'.file)
           n == Len(raws)
           m == Len(entries)
       IN     /\ LoadStep
              /\ HoldsList(ghost'.file)
              /\ \A i \in 1..n : EntryLike(raws[i])
              => /\ lastAlert' = ImportedAlert(n)
                 /\ ~isImporting'
                 /\ Len(entries') = m + n
                 /\ SubSeq(entries', 1, m) = entries
                 /\ \A i \in 1..n :
                       /\ Canonical(entries'[m + i], raws[i])
                       /\ \A j \in 1..(m + n) :
                             j # m + i => entries'[j].id # entries'[m + i].id
      ]_vars

\* Two entries have just been imported from an object whose `entries`
\* holds them, the first with both `text` and `content`, a `date` and two
\* photos, the second with the legacy names only.
C15_Witness ==
    /\ ghost.file.t = "object" /\ Len(Listed(ghost.file)) = 2
    /\ lastAlert = ImportedAlert(2)
    /\ Len(entries) = 2
    /\ entries[1].content = Str("t") /\ entries[1].date = Str("d")
    /\ Len(entries[1].images) = 2
    /\ entries[2].content = Str("c") /\ entries[2].date = Str("cd")
    /\ entries[2].tags = Arr(<<>>)

\* C16: when the value read is not a list and holds none (an object without
\* `entries` or with an `entries` that is no list, null, a number, a
\* string), the import adds nothing, lets no error escape, and shows the
\* failure notice.
C16_NonListIsFailure ==
    [][LoadStep /\ ghost'.file.t # "invalid" /\ ~HoldsList(ghost'.file)
              => /\ entries' = entries
                 /\ ~uncaught'
                 /\ lastAlert' = FailedAlert]_vars

-----------------------------------------------------------------------------
(* geminiService: the caller's text in the requests *)

\* p is exactly the first n code units of s.
FirstUnits(p, s, n) == Len(p) = n /\ \A i \in 1..n : p[i] = s[i]
Smaller(a, b) == IF a < b THEN a ELSE b

\* C21: the text sent to the providers is a capped prefix of the caller's
\* text: analyzeJournalForVideo embeds exactly its first min(len, 5000)
\* code units, analyzeLifeProfile its first min(len, 10000), and
\* generateCinematicMemory sends as prompt exactly the first min(len, 400),
\* which is the whole prompt when len <= 400.
C21_CappedPrefix ==
    /\ svcOp = "analyzeJournalForVideo" /\ txt.state # "none"
         => FirstUnits(sent, svcPrompt, Smaller(Len(svcPrompt), 5000))
    /\ svcOp = "analyzeLifeProfile" /\ txt.state # "none"
         => FirstUnits(sent, svcPrompt, Smaller(Len(svcPrompt), 10000))
    /\ svcOp = "generateCinematicMemory" /\ vid.pc # "idle"
         => /\ FirstUnits(vid.request.prompt, svcPrompt,
                          Smaller(Len(svcPrompt), 400))
            /\ Len(svcPrompt) <= 400 => vid.request.prompt = svcPrompt

\* analyzeJournalForVideo has sent a request for a text one code unit
\* longer than its cap.
C21_Witness ==
    /\ svcOp = "analyzeJournalForVideo" /\ txt.state = "pending"
    /\ Len(svcPrompt) = 5001 /\ Len(sent) = 5000

-----------------------------------------------------------------------------
(* App: import, field by field *)

\* The raw entries of the file a successful load has just read, and the
\* position in entries' of the entry made from the i-th of them.
Raws == Listed(ghost'.file)
Made(i) == entries'[Len(entries) + i]
Imports == LoadStep /\ lastAlert'.kind = "success"

NonEmptyString(v) == v.t = "string" /\ v.s # ""

\* C22: between the aliases `content` and `text` the import prefers
\* `content`: an imported object with both a non-empty `content` and a
\* non-empty `text` gets the content of its `content`.
C22_ContentPreferred ==
    [][Imports =>
         \A i \in 1..Len(Raws) :
            /\ Raws[i].t = "object"
            /\ NonEmptyString(Raws[i].content)
            /\ NonEmptyString(Raws[i].text)
            => Made(i).content = Raws[i].content]_vars

\* The elements of ps that are strings, in order.
RECURSIVE StringsOf(_)
StringsOf(ps) ==
    IF ps = <<>> THEN <<>>
    ELSE (IF Head(ps).t = "string" THEN <<Head(ps)>> ELSE <<>>)
            \o StringsOf(Tail(ps))

\* C23: the import drops the photos that are no strings without any
\* notice: the images of an imported entry are exactly the string elements
\* of its `photos`, in order, and the import succeeds.
C23_NonStringPhotosDropped ==
    [][LoadStep =>
         \A i \in 1..Len(Raws) :
            Raws[i].t = "object" /\ Raws[i].photos.t = "array"
            => /\ lastAlert'.kind = "success"
               /\ Made(i).images = StringsOf(Raws[i].photos.items)]_vars

-----------------------------------------------------------------------------
(* App: selection, views, the entries list *)

Ids(es) == {es[i].id : i \in 1..Len(es)}

\* C24: selection exists only inside selection mode: whenever
\* isSelectionMode is false, selectedIds is empty.
C24_SelectionOnlyInMode == ~isSelectionMode => selectedIds = <<>>

\* Both entries are selected and the user has gone to another view; the
\* selection mode is still on.
C24_Witness ==
    /\ appView = "LIFE_CINEMA" /\ isSelectionMode
    /\ Len(selectedIds) = 2 /\ Len(entries) = 2

\* C25: in the MTV view something is selected, every selected id is the id
\* of an entry, and VideoGenerator receives at least one entry.
C25_MtvHasEntries ==
    appView = "MTV"
        => /\ selectedIds # <<>>
           /\ \A i \in 1..Len(selectedIds) : selectedIds[i] \in Ids(entries)
           /\ getSelectedEntries(entries, selectedIds) # <<>>

\* The MTV view is open with every entry selected, and a file is being
\* read.
C25_Witness ==
    /\ appView = "MTV" /\ reading
    /\ Len(entries) = 2 /\ Len(selectedIds) = 2

\* A step of the mounted App after the initial load; one that creates an
\* entry in the editor.
Mounted == appPc = "ready" /\ appPc' = "ready"
Saves == Mounted /\ ~LoadStep /\ nextId' # nextId

\* C28: after the initial load the entries list only grows: a save from
\* the editor puts exactly one new entry in front of the others, an import
\* puts its entries after the others, and every other step (selection,
\* views, the import panel) leaves the list as it is; no entry already in
\* the list is removed, changed or moved.
C28_ListOnlyGrows ==
    [][Mounted =>
         /\ Saves => /\ Len(entries') = Len(entries) + 1
                     /\ Tail(entries') = entries
                     /\ Head(entries').id \notin Ids(entries)
         /\ LoadStep => /\ Len(entries') >= Len(entries)
                        /\ SubSeq(entries', 1, Len(entries)) = entries
         /\ ~Saves /\ ~LoadStep => entries' = entries]_vars

\* An entry has been saved in front of one that was imported before it.
C28_Witness ==
    /\ appPc = "ready" /\ Len(entries) = 2
    /\ entries[1].id > entries[2].id
    /\ entries[1].tags.t = "array" /\ entries[1].date.s = "2024-01-01"
    /\ entries[2].date = Str("<now>")

-----------------------------------------------------------------------------
(* Generation components: the status of a run *)

\* A step of a run that is not its start.
RunStep == Len(runs') = Len(runs) /\ runs' # runs

\* C26: a run moves the status only along ANALYZING -> GENERATING ->
\* COMPLETED, ANALYZING -> ERROR or ANALYZING -> GENERATING -> ERROR;
\* GENERATING is entered only when the analysis result has arrived,
\* COMPLETED only when both the video and the audio generation of the run
\* have succeeded; and whenever the status is COMPLETED both the video URL
\* and the audio URL are set.
C26_StatusPath ==
    [][/\ RunStep /\ ui'.status # ui.status
            => <<ui.status, ui'.status>> \in
                   {<<"ANALYZING", "GENERATING">>, <<"ANALYZING", "ERROR">>,
                    <<"GENERATING", "COMPLETED">>, <<"GENERATING", "ERROR">>}
       /\ ui'.status = "GENERATING" /\ ui.status # "GENERATING"
            => \E r \in RunIds :
                  /\ Run(r).ana.state = "pending"
                  /\ runs'[r].ana.state = "fulfilled"
                  /\ ui'.analysis = r
       /\ ui'.status = "COMPLETED" /\ ui.status # "COMPLETED"
            => \E r \in RunIds :
                  /\ runs'[r].vid.state = "fulfilled"
                  /\ runs'[r].aud.state = "fulfilled"
                  /\ ui'.videoUrl = r /\ ui'.audioUrl = r
       /\ ui'.status = "COMPLETED" => ui'.videoUrl # 0 /\ ui'.audioUrl # 0
      ]_vars

\* A second run has completed after a first one ended in ERROR.
C26_Witness ==
    /\ ui.status = "COMPLETED" /\ Len(runs) = 2
    /\ runs[1].h = "caught" /\ runs[2].h = "returned"
    /\ ui.videoUrl = 2 /\ ui.audioUrl = 2

\* The handler of run r is suspended at an await; a generation of run r
\* is still in flight.
Awaiting(r) == Run(r).h \in {"ana", "all"}
InFlight(g) == g.state = "pending"

\* C27: when one of the two generations of a run fails while the other is
\* still in flight, the component enters ERROR in that step and the other
\* generation stays in flight; what a generation of a run does after the
\* run's handler has ended changes neither the status nor the video URL
\* nor the audio URL, also when a new run has been started meanwhile; and
\* at no time is the handler of more than one run suspended at an await.
C27_OrphanNeverWrites ==
    [][/\ \A r \in RunIds :
            /\ /\ Run(r).h = "all"
               /\ InFlight(Run(r).vid) /\ InFlight(Run(r).aud)
               /\ runs'[r].aud.state = "rejected"
               => /\ ui'.status = "ERROR"
                  /\ InFlight(runs'[r].vid)
            /\ /\ Run(r).h = "all"
               /\ InFlight(Run(r).vid) /\ InFlight(Run(r).aud)
               /\ runs'[r].vid.state = "rejected"
               => /\ ui'.status = "ERROR"
                  /\ InFlight(runs'[r].aud)
            /\ ~Awaiting(r) /\ runs'[r] # Run(r)
               => /\ ui'.status = ui.status
                  /\ ui'.videoUrl = ui.videoUrl
                  /\ ui'.audioUrl = ui.audioUrl
       /\ \A q, r \in 1..Len(runs') :
            runs'[q].h \in {"ana", "all"} /\ runs'[r].h \in {"ana", "all"}
                => q = r]_vars

\* The audio generation of the first run has failed, the user has started
\* a second run, which is generating, and the video generation of the
\* first run has gone on and succeeded.
C27_Witness ==
    /\ Len(runs) = 2 /\ ui.status = "GENERATING"
    /\ runs[1].h = "caught"
    /\ runs[1].aud.state = "rejected" /\ runs[1].vid.state = "fulfilled"
    /\ runs[2].h = "all" /\ InFlight(runs[2].vid)

\* C29: LifeCinema.handleStart with fewer than 3 entries starts no run (so
\* issues no remote call), sets the message asking for at least 3 entries
\* and leaves the status, the profile, the video URL and the audio URL as
\* they are; with 3 or more entries it clears the message, sets the status
\* to ANALYZING and starts a run, whose analysis request is in flight.
C29_ThreeEntriesNeeded ==
    [][/\ comp = "LifeCinema" /\ mounted'
       /\ ui.status \in {"IDLE", "COMPLETED"} /\ ui' # ui
       => IF Len(genEntries) < 3
          THEN /\ runs' = runs
               /\ ui' = [ui EXCEPT !.errorMsg =
                    "Please write or import at least 3 journal entries to analyze your life patterns."]
          ELSE /\ ui' = [ui EXCEPT !.errorMsg = NoMsg, !.status = "ANALYZING"]
               /\ Len(runs') = Len(runs) + 1
               /\ SubSeq(runs', 1, Len(runs)) = runs
               /\ runs'[Len(runs')].ana.state = "pending"
               /\ runs'[Len(runs')].vid.state = "none"
               /\ runs'[Len(runs')].aud.state = "none"]_vars

\* LifeCinema has refused to start with two entries: the message is set,
\* the status is still IDLE and no run exists.
C29_Witness ==
    /\ comp = "LifeCinema" /\ Len(genEntries) = 2
    /\ ui.status = "IDLE" /\ runs = <<>>
    /\ ui.errorMsg =
         "Please write or import at least 3 journal entries to analyze your life patterns."

-----------------------------------------------------------------------------
(* Editor: a tag suggestion completes                                       *)

\* The step that ends a call of handleSuggestTags.
Completes == isSuggesting /\ suggestion'.state \in {"fulfilled", "rejected"}

\* The duplicate-free union of the tags current at completion and the
\* suggested ones; the current tags when nothing usable was suggested.
UnionWithCurrent(current, s) ==
    IF s.state = "fulfilled" /\ s.result.kind = "list"
    THEN Unique(current \o s.result.tags)
    ELSE current

\* C30: when a suggestion request completes, the tags become the
\* duplicate-free union of the tags current at that moment and the
\* suggested tags, so a tag removed while the request was in flight comes
\* back only if it is suggested; isSuggesting is false after success and
\* after failure.
C30_UnionWithCurrentTags ==
    [][Completes =>
          /\ ~isSuggesting'
          /\ edTags' = UnionWithCurrent(edTags, suggestion')]_vars

\* The part of C30 that the code keeps: isSuggesting is false after every
\* completion, and a failed request leaves the tags alone.
C30_FinallyClears ==
    [][Completes =>
          /\ ~isSuggesting'
          /\ (suggestion'.state = "rejected" => edTags' = edTags)]_vars

====
